---------------------------- MODULE Spec2Model ----------------------------
(***************************************************************************)
(* Model of the Buttplug server device manager: the live device map, the   *)
(* discovery pipeline of ButtplugDevice::try_create_device, the routing of *)
(* client messages by ServerDeviceManager::parse_message, the scanning     *)
(* commands and the serial-port communication manager's scan.              *)
(*                                                                         *)
(* The event loop (server_device_manager_event_loop.rs), the server layer  *)
(* that stamps reply ids and the configuration manager are not part of the *)
(* sources at hand; the definitions that stand for them follow the written *)
(* specification and are marked as such in the comments.                   *)
(***************************************************************************)
EXTENDS Integers, Sequences, FiniteSets, TLC

(***************************************************************************)
(* Bounds of the model.                                                    *)
(***************************************************************************)
\* Number of discovery tasks that may be in flight at once.
NumTasks == 1
\* Client message ids range over 1..MaxId.
MaxId == 2
\* Client device commands name a device index in 1..MaxCmdIndex.
MaxCmdIndex == 2
\* Reserved-index tables bind an index in 1..MaxReserved.
MaxReserved == 2

\* Capacity given to the command channel (mpsc::channel(256) in the code).
CmdChanCap == 1
\* Capacity given to the event channel (mpsc::channel(256) in the code).
EvChanCap == 1
\* Communication managers besides the serial-port manager.
NumOtherManagers == 1
\* available_ports() returns at most MaxPorts ports.
MaxPorts == 2

\* Device commands the client submits in one run.
MaxCmds == 2
\* Feature indices a command may name run from 0 to MaxFeatureIndex.
MaxFeatureIndex == 1
\* Scalars are the levels 0..MaxLevel (0.0 to 1.0 in equal steps).
MaxLevel == 1

\* A ScalarCmd handed to the validator has at most MaxSubs subcommands.
MaxSubs == 2
\* The scalar 1.0 is ScalarOne steps above 0.0.
ScalarOne == 2
\* Scalars handed to the validator run ScalarRange steps below 0.0 and
\* above 1.0.
ScalarRange == 1

Tasks == 1..NumTasks
Ids == 1..MaxId
CmdIndices == 1..MaxCmdIndex

None == [type |-> "None"]

VARIABLES
  devices,    \* ServerDeviceManager.devices: index -> device (the live map)
  config,     \* the reserved-index bindings asked of the builder
  reserved,   \* reserved-index table: identifier -> index (configuration)
  tasks,      \* discovery tasks: stage and hardware candidate of each
  out,        \* server messages broadcast by the last step
  log,        \* what the last step logged ("none" when nothing)
  lastEvt,    \* per index, the last lifecycle event broadcast for it
  req,        \* the client message being handled, or None
  resp,       \* the reply handed to the client for req, or None
  stopFuts,   \* stop_all_devices: the StopDeviceCmd future of each device
  delivered,  \* the device command last handed to a device, or None
  cmdChan,    \* device_command channel: manager -> event loop
  evChan,     \* device_event channel: communication managers -> event loop
  cancelled,  \* loop_cancellation_token has been cancelled
  dropped,    \* the ServerDeviceManager has been dropped
  loopAlive,  \* the event loop runs (it holds the two receivers)
  canScan,    \* can_scan() of the communication managers other than serial
  gen,        \* scan state of the communication managers other than serial
  serial,     \* the serial-port manager's scan future
  scanningInProgress,  \* event loop: a scan is under way
  pendingScans,        \* event loop: started managers yet to report
  lastStart,  \* the managers started by the last StartScanning handled
  futs,       \* device command futures the client holds, in submission order
  hwLog,      \* writes that reached the hardware, in the order they did
  cache,      \* per device and feature: the level last written
  allowRaw,   \* the configuration's allow_raw_messages flag
  vmsg,       \* a message handed to its validator
  vres,       \* what the validator returned for it
  vconv,      \* what the message was converted into, or None
  maxPingTime,  \* the server's max_ping_time (0: no ping timer)
  handshook,    \* the handshake is done (ServerInfo was sent)
  sincePing,    \* time units since the handshake or the last Ping
  pingFired,    \* the ping timer has run out
  builder       \* ServerDeviceManagerBuilder: what is registered, what finish gave

dmVars == <<devices, config, reserved, tasks, out, log, lastEvt, req, resp, stopFuts, delivered>>
dmRest == <<devices, config, reserved, tasks, lastEvt, req, resp, stopFuts, delivered>>
scanVars == <<cmdChan, evChan, cancelled, dropped, loopAlive, canScan, gen, serial,
              scanningInProgress, pendingScans, lastStart>>
devVars == <<futs, hwLog, cache, allowRaw>>
msgVars == <<vmsg, vres, vconv>>
pingVars == <<maxPingTime, handshook, sincePing, pingFired>>
restVars == <<devVars, msgVars, pingVars, builder>>
vars == <<dmVars, scanVars, devVars, msgVars, pingVars, builder>>

(***************************************************************************)
(* Device identifiers.                                                     *)
(***************************************************************************)
\* Debug formatting of a ProtocolAttributesIdentifier ({:?}).
DebugFmt(attrs) ==
  IF attrs.kind = "Default" THEN <<"Default">>
  ELSE <<"Identifier(\"">> \o attrs.id \o <<"\")">>

\* form_device_identifier: format!("{}|{:?}|{}", ...).
form_device_identifier(protocol_identifier, protocol_attributes_identifier, device_address) ==
  protocol_identifier \o <<"|">> \o DebugFmt(protocol_attributes_identifier)
    \o <<"|">> \o device_address

\* The identifier triple of a device.
Triple(d) == <<d.protocol, d.attrs, d.address>>

\* ButtplugDevice::new: the identifier string is formed at construction.
NewDevice(h) ==
  [protocol |-> h.protocol, attrs |-> h.attrs, address |-> h.address,
   device_identifier |-> form_device_identifier(h.protocol, h.attrs, h.address)]

\* A comparison of the wrong fields: the identifier against the address.
DeviceEqWrongField(a, b) == a.device_identifier = b.address

\* PartialEq for ButtplugDevice: equality of the identifier strings.
DeviceEq(a, b) == a.device_identifier = b.device_identifier

(***************************************************************************)
(* Hardware candidates the transports may report.  A candidate carries its *)
(* address, the protocol whose specifier it matches (<<>> when none does)  *)
(* and the attributes identifier the protocol's identify stage reports.    *)
(***************************************************************************)
DefaultAttrs == [kind |-> "Default"]
HwA == [address |-> <<"b">>, protocol |-> <<"p">>,
        attrs |-> [kind |-> "Identifier", id |-> <<"A">>]]
HwB == [address |-> <<"a">>, protocol |-> <<"q">>, attrs |-> DefaultAttrs]
HwUnknown == [address |-> <<"c">>, protocol |-> <<>>, attrs |-> DefaultAttrs]
Hardware == {HwA, HwB, HwUnknown}
Matching == {h \in Hardware : h.protocol # <<>>}

\* What is asked of the builder: nothing, or one identifier bound to an index.
Configs ==
  {{}} \cup {{[identifier |-> Triple(h), index |-> i]} : h \in Matching, i \in 1..MaxReserved}

\* A builder call that loses the binding.
reserved_index_dropped(table, identifier, index) == table

\* ServerDeviceManagerBuilder::reserved_index: the binding is handed to the
\* configuration manager builder, which keeps it in its table.
reserved_index(table, identifier, index) == (identifier :> index) @@ table

RECURSIVE BuildReserved(_)
BuildReserved(bindings) ==
  IF bindings = {} THEN <<>>
  ELSE LET b == CHOOSE x \in bindings : TRUE
       IN reserved_index(BuildReserved(bindings \ {b}), b.identifier, b.index)

IdleTask == [stage |-> "Idle", hw |-> None, passed |-> <<>>]

(***************************************************************************)
(* Server messages.                                                        *)
(***************************************************************************)
DeviceAdded(i) == [type |-> "DeviceAdded", index |-> i]
DeviceRemoved(i) == [type |-> "DeviceRemoved", index |-> i]

Emitted(m) == \E k \in 1..Len(out) : out[k] = m
EmittedNext(m) == \E k \in 1..Len(out') : out'[k] = m
(***************************************************************************)
(* Discovery pipeline: ButtplugDevice::try_create_device, run as one task  *)
(* per DeviceFound event.  A task that ends (Ok(None), an error, or a      *)
(* device handed to the event loop) frees its slot.                        *)
(***************************************************************************)
Quiet == out' = <<>> /\ log' = "none"

ClientUnchanged == UNCHANGED <<req, resp, stopFuts, delivered>> /\ UNCHANGED scanVars /\ UNCHANGED restVars

\* The task ends without a device: nothing is registered, nothing broadcast.
TaskEnds(t, note) ==
  /\ tasks' = [tasks EXCEPT ![t] = IdleTask]
  /\ out' = <<>>
  /\ log' = note
  /\ UNCHANGED <<devices, config, reserved, lastEvt>>
  /\ ClientUnchanged

\* The stage succeeded: the task moves on, and the stage counts as passed.
TaskAdvances(t, stage) ==
  /\ tasks' = [tasks EXCEPT ![t].stage = stage, ![t].passed = Append(@, stage)]
  /\ Quiet
  /\ UNCHANGED <<devices, config, reserved, lastEvt>>
  /\ ClientUnchanged

\* A transport reports a device; the event loop starts a discovery task.
DeviceFound(t, h) ==
  /\ loopAlive
  /\ tasks[t].stage = "Idle"
  /\ tasks' = [tasks EXCEPT ![t] = [stage |-> "Advertised", hw |-> h, passed |-> <<>>]]
  /\ Quiet
  /\ UNCHANGED <<devices, config, reserved, lastEvt>>
  /\ ClientUnchanged

\* A lookup that goes on to connect whether or not a protocol matches.
SpecifierMatchAnyHardware(t) ==
  /\ tasks[t].stage = "Advertised"
  /\ TaskAdvances(t, "Matched")

\* device_config_mgr.protocol_builder(&specifier): None gives Ok(None).
SpecifierMatch(t) ==
  /\ tasks[t].stage = "Advertised"
  /\ IF tasks[t].hw.protocol = <<>>
       THEN TaskEnds(t, "no protocol")
       ELSE TaskAdvances(t, "Matched")

\* device_creator.try_create_device_impl(..).await?
Connect(t) ==
  /\ tasks[t].stage = "Matched"
  /\ \/ TaskAdvances(t, "Connected")
     \/ TaskEnds(t, "dropped")

\* protocol_builder.create(..).await?, first stage: identify.
Identify(t) ==
  /\ tasks[t].stage = "Connected"
  /\ \/ TaskAdvances(t, "Identified")
     \/ TaskEnds(t, "dropped")

\* protocol_builder.create(..).await?, second stage: attribute lookup.
AttributesLookup(t) ==
  /\ tasks[t].stage = "Identified"
  /\ \/ TaskAdvances(t, "AttributesResolved")
     \/ TaskEnds(t, "dropped")

\* An initialization whose error is not propagated: the device is returned.
InitializeIgnoresFailure(t) ==
  /\ tasks[t].stage = "AttributesResolved"
  /\ \/ TaskAdvances(t, "Ready")
     \/ /\ tasks' = [tasks EXCEPT ![t].stage = "Ready"]
        /\ Quiet
        /\ UNCHANGED <<devices, config, reserved, lastEvt>>
        /\ ClientUnchanged

\* protocol_builder.create(..).await?, third stage: initialize.
Initialize(t) ==
  /\ tasks[t].stage = "AttributesResolved"
  /\ \/ TaskAdvances(t, "Ready")
     \/ TaskEnds(t, "dropped")

\* A discovery task holds a child of the cancellation token: once the token
\* is cancelled the task abandons what it was waiting for and returns.
TaskCancel(t) ==
  /\ cancelled
  /\ tasks[t].stage # "Idle"
  /\ TaskEnds(t, "cancelled")

(***************************************************************************)
(* Registration and removal, done by the event loop (the sole writer of    *)
(* the live map).  Written from the specification.                         *)
(***************************************************************************)
\* The smallest index >= 1 that is not a key of the live map.
SmallestUnused(map) ==
  CHOOSE i \in 1..(Cardinality(DOMAIN map) + 1) :
    /\ i \notin DOMAIN map
    /\ \A j \in 1..(i - 1) : j \in DOMAIN map

\* Index assignment: the reserved slot of the identifier, else the smallest
\* unused index >= 1.
AssignIndex(dev) ==
  IF Triple(dev) \in DOMAIN reserved THEN reserved[Triple(dev)]
  ELSE SmallestUnused(devices)

\* Is a device equal to dev already in the live map?
AlreadyPresent(dev) == \E i \in DOMAIN devices : DeviceEq(devices[i], dev)

\* DashMap::insert: the entry of the key is set, an old one is replaced.
MapInsert(map, key, value) == (key :> value) @@ map

\* DashMap::remove.
MapRemove(map, keys) == [i \in (DOMAIN map) \ keys |-> map[i]]

\* The task returned Ok(Some(device)): the event loop registers the device,
\* unless a device with the same identifier is present already.
RegisterDevice(t) ==
  /\ loopAlive
  /\ tasks[t].stage = "Ready"
  /\ LET dev == NewDevice(tasks[t].hw)
         idx == AssignIndex(dev)
     IN IF AlreadyPresent(dev)
          THEN TaskEnds(t, "duplicate")
          ELSE /\ tasks' = [tasks EXCEPT ![t] = IdleTask]
               /\ devices' = MapInsert(devices, idx, dev)
               /\ out' = <<DeviceAdded(idx)>>
               /\ log' = "none"
               /\ lastEvt' = MapInsert(lastEvt, idx, "added")
               /\ UNCHANGED <<config, reserved>>
               /\ ClientUnchanged

\* The indices of the devices with the given hardware address.
IndicesOf(address) == {i \in DOMAIN devices : devices[i].address = address}

RECURSIVE RemovedMsgs(_)
RemovedMsgs(S) ==
  IF S = {} THEN <<>>
  ELSE LET i == CHOOSE x \in S : \A y \in S : x <= y
       IN <<DeviceRemoved(i)>> \o RemovedMsgs(S \ {i})

\* ButtplugDeviceEvent::Removed(address) from the hardware of a registered
\* device: the device leaves the live map and DeviceRemoved is broadcast.
DeviceDisconnect(i) ==
  /\ loopAlive
  /\ i \in DOMAIN devices
  /\ LET gone == IndicesOf(devices[i].address)
     IN /\ devices' = MapRemove(devices, gone)
        /\ out' = RemovedMsgs(gone)
        /\ log' = "none"
        /\ lastEvt' = [j \in DOMAIN lastEvt |-> IF j \in gone THEN "removed" ELSE lastEvt[j]]
  /\ UNCHANGED <<config, reserved, tasks>>
  /\ ClientUnchanged
(***************************************************************************)
(* Client messages: ServerDeviceManager::parse_message and what it calls.  *)
(***************************************************************************)
\* A device command union that has the LovenseCmd variant too.
DeviceCommandTypesWithLovense ==
  {"FleshlightLaunchFW12Cmd", "SingleMotorVibrateCmd", "VorzeA10CycloneCmd",
   "KiirooCmd", "LovenseCmd", "VibrateCmd", "LinearCmd", "RotateCmd", "RawWriteCmd",
   "RawReadCmd", "StopDeviceCmd", "SubscribeCmd", "UnsubscribeCmd"}

\* ButtplugDeviceCommandMessageUnion: the messages routed to a device.
DeviceCommandTypes ==
  {"FleshlightLaunchFW12Cmd", "SingleMotorVibrateCmd", "VorzeA10CycloneCmd",
   "KiirooCmd", "VibrateCmd", "LinearCmd", "RotateCmd", "RawWriteCmd",
   "RawReadCmd", "StopDeviceCmd", "SubscribeCmd", "UnsubscribeCmd"}

\* ButtplugDeviceManagerMessageUnion: the messages the manager handles.
ManagerTypes == {"RequestDeviceList", "StopAllDevices", "StartScanning", "StopScanning"}

\* The message types the modelled client sends.
ClientDeviceTypes == {"VibrateCmd"}
ClientOtherTypes == {"Ping"}

DeviceMsg(type, k, i) == [type |-> type, id |-> k, device_index |-> i]
PlainMsg(type, k) == [type |-> type, id |-> k]

\* messages::Ok::default()
OkDefault == [type |-> "Ok", id |-> 1]

\* messages::StopDeviceCmd::new(device_index): a new message has id 1.
StopDeviceCmdNew(device_index) == DeviceMsg("StopDeviceCmd", 1, device_index)

\* Results of the manager's futures: Ok(message) or Err(error).
ResOk(m) == [ok |-> TRUE, msg |-> m]
ResErr(kind, what, arg) == [ok |-> FALSE, kind |-> kind, what |-> what, arg |-> arg]

\* Wire error codes.
ErrorCode(kind) ==
  CASE kind = "Device" -> 4
    [] kind = "Message" -> 3
    [] kind = "Ping" -> 2
    [] kind = "Handshake" -> 1
    [] OTHER -> 0

\* A reply that keeps whatever id the manager's result carries.
ServerReplyKeepsId(k, res) ==
  IF res.ok THEN res.msg
  ELSE [type |-> "Error", id |-> 0, code |-> ErrorCode(res.kind),
        what |-> res.what, arg |-> res.arg]

\* The server layer around the manager: the reply (a message, or an error
\* turned into an Error message) gets the id of the client's message.
ServerReply(k, res) ==
  IF res.ok THEN [res.msg EXCEPT !.id = k]
  ELSE [type |-> "Error", id |-> k, code |-> ErrorCode(res.kind),
        what |-> res.what, arg |-> res.arg]

DmQuiet == Quiet /\ UNCHANGED <<devices, config, reserved, tasks, lastEvt>> /\ UNCHANGED scanVars /\ UNCHANGED restVars

\* parse_device_message that hands the command to some device when the
\* index is absent.
ParseDeviceMessageAnyDevice(device_msg) ==
  /\ req' = device_msg
  /\ IF DOMAIN devices # {}
       THEN /\ resp' = None
            /\ \E i \in DOMAIN devices : delivered' = [index |-> i, msg |-> device_msg]
       ELSE /\ resp' = ServerReply(device_msg.id,
                         ResErr("Device", "DeviceNotAvailable", device_msg.device_index))
            /\ delivered' = None
  /\ stopFuts' = <<>>
  /\ DmQuiet

\* parse_device_message: the device registered at the index gets the
\* command (its future is awaited), an absent index gives DeviceNotAvailable.
ParseDeviceMessage(device_msg) ==
  /\ req' = device_msg
  /\ IF device_msg.device_index \in DOMAIN devices
       THEN /\ resp' = None
            /\ delivered' = [index |-> device_msg.device_index, msg |-> device_msg]
       ELSE /\ resp' = ServerReply(device_msg.id,
                         ResErr("Device", "DeviceNotAvailable", device_msg.device_index))
            /\ delivered' = None
  /\ stopFuts' = <<>>
  /\ DmQuiet

\* The device's future completes: Ok echoing the id, or a device error.
DeviceResults(msg) ==
  {ResOk([type |-> "Ok", id |-> msg.id]),
   ResErr("Device", "ProtocolSpecificError", msg.device_index)}

DeviceCmdComplete ==
  /\ req.type \in DeviceCommandTypes
  /\ resp = None
  /\ \E r \in DeviceResults(req) : resp' = ServerReply(req.id, r)
  /\ UNCHANGED <<req, stopFuts, delivered>>
  /\ DmQuiet

\* A list that numbers its entries 1, 2, .. instead of by their map keys.
DeviceListByPosition(k) ==
  [type |-> "DeviceList", id |-> k,
   entries |-> {[index |-> Cardinality({j \in DOMAIN devices : j <= i}),
                 identifier |-> devices[i].device_identifier] : i \in DOMAIN devices}]

\* RequestDeviceList: one entry per device of the live map, id of the request.
DeviceList(k) ==
  [type |-> "DeviceList", id |-> k,
   entries |-> {[index |-> i, identifier |-> devices[i].device_identifier] : i \in DOMAIN devices}]

RequestDeviceList(msg) ==
  /\ req' = msg
  /\ resp' = ServerReply(msg.id, ResOk(DeviceList(msg.id)))
  /\ delivered' = None
  /\ stopFuts' = <<>>
  /\ DmQuiet

\* stop_all_devices, first poll: a StopDeviceCmd goes to every device of the
\* live map and the futures are collected.
StopAllBegin(msg) ==
  /\ req' = msg
  /\ resp' = None
  /\ stopFuts' = [i \in DOMAIN devices |-> [cmd |-> StopDeviceCmdNew(1), done |-> FALSE]]
  /\ delivered' = None
  /\ DmQuiet

\* One device's stop future completes (with Ok or an error: it is not read).
StopFutComplete(i) ==
  /\ req.type = "StopAllDevices"
  /\ resp = None
  /\ i \in DOMAIN stopFuts
  /\ ~stopFuts[i].done
  /\ stopFuts' = [stopFuts EXCEPT ![i].done = TRUE]
  /\ UNCHANGED <<req, resp, delivered>>
  /\ DmQuiet

\* A stop_all_devices that acknowledges without awaiting the futures.
StopAllAckEarly ==
  /\ req.type = "StopAllDevices"
  /\ resp = None
  /\ resp' = ServerReply(req.id, ResOk(OkDefault))
  /\ UNCHANGED <<req, stopFuts, delivered>>
  /\ DmQuiet

\* A stop_all_devices that reads the results and reports a failed stop.
StopAllAckReportsFailure ==
  /\ req.type = "StopAllDevices"
  /\ resp = None
  /\ \A i \in DOMAIN stopFuts : stopFuts[i].done
  /\ resp' = IF \E i \in DOMAIN stopFuts : "failed" \in DOMAIN stopFuts[i]
               THEN ServerReply(req.id, ResErr("Device", "ProtocolSpecificError", 0))
               ELSE ServerReply(req.id, ResOk(OkDefault))
  /\ UNCHANGED <<req, stopFuts, delivered>>
  /\ DmQuiet

\* future::join_all(fut_vec).await has returned: Ok.
StopAllAck ==
  /\ req.type = "StopAllDevices"
  /\ resp = None
  /\ \A i \in DOMAIN stopFuts : stopFuts[i].done
  /\ resp' = ServerReply(req.id, ResOk(OkDefault))
  /\ UNCHANGED <<req, stopFuts, delivered>>
  /\ DmQuiet

\* An error path that also empties the device map.
UnexpectedMessageDropsDevices(msg) ==
  /\ req' = msg
  /\ resp' = ServerReply(msg.id, ResErr("Message", "UnexpectedMessageType", msg.type))
  /\ delivered' = None
  /\ stopFuts' = <<>>
  /\ devices' = <<>>
  /\ Quiet
  /\ UNCHANGED <<config, reserved, tasks, lastEvt>>
  /\ UNCHANGED scanVars
  /\ UNCHANGED restVars

\* Neither a device command nor a manager message.
UnexpectedMessage(msg) ==
  /\ req' = msg
  /\ resp' = ServerReply(msg.id, ResErr("Message", "UnexpectedMessageType", msg.type))
  /\ delivered' = None
  /\ stopFuts' = <<>>
  /\ DmQuiet

\* The client sends its next message once the previous one is answered.
ClientReady == req = None \/ resp # None

\* The messages of the client: device commands, messages for the manager
\* other than the scanning ones, and messages the manager does not take.
ClientMessages ==
  {DeviceMsg(ty, k, i) : ty \in ClientDeviceTypes, k \in Ids, i \in CmdIndices}
    \cup {PlainMsg(ty, k) : ty \in {"RequestDeviceList", "StopAllDevices"} \cup ClientOtherTypes,
                            k \in Ids}

ScanTypes == {"StartScanning", "StopScanning"}

ScanMessages == {PlainMsg(ty, k) : ty \in ScanTypes, k \in Ids}

(***************************************************************************)
(* Channels.  tokio::sync::mpsc::Sender::send(..).await on a bounded       *)
(* channel: Err when the receiver is gone, the value is queued when there  *)
(* is room, and otherwise the sender is suspended until there is room.     *)
(***************************************************************************)
SendOutcome(chan, cap, receiverAlive) ==
  IF ~receiverAlive THEN "closed"
  ELSE IF Len(chan) < cap THEN "queued"
  ELSE "wait"

(***************************************************************************)
(* StartScanning and StopScanning: ServerDeviceManager::start_scanning and *)
(* stop_scanning send a command to the event loop and answer Ok.           *)
(***************************************************************************)
\* The future is created; nothing is sent before it is polled.
ScanRequest(msg) ==
  /\ ~dropped
  /\ req' = msg
  /\ resp' = None
  /\ delivered' = None
  /\ stopFuts' = <<>>
  /\ Quiet
  /\ UNCHANGED <<devices, config, reserved, tasks, lastEvt>>
  /\ UNCHANGED scanVars
  /\ UNCHANGED restVars

\* A scan request that reports a failed hand-over to the client.
ScanCommandSendReportsFailure ==
  /\ req.type \in ScanTypes
  /\ resp = None
  /\ LET o == SendOutcome(cmdChan, CmdChanCap, loopAlive)
     IN /\ o # "wait"
        /\ cmdChan' = IF o = "queued" THEN Append(cmdChan, req.type) ELSE cmdChan
        /\ resp' = IF o = "queued" THEN ServerReply(req.id, ResOk(OkDefault))
                   ELSE ServerReply(req.id, ResErr("Device", "DeviceManagerGone", 0))
  /\ UNCHANGED <<req, stopFuts, delivered>>
  /\ Quiet
  /\ UNCHANGED <<devices, config, reserved, tasks, lastEvt>>
  /\ UNCHANGED <<evChan, cancelled, dropped, loopAlive, canScan, gen, serial,
                 scanningInProgress, pendingScans, lastStart>>
  /\ UNCHANGED restVars

\* command_sender.send(..).await, then Ok whatever the send said.
ScanCommandSend ==
  /\ req.type \in ScanTypes
  /\ resp = None
  /\ LET o == SendOutcome(cmdChan, CmdChanCap, loopAlive)
     IN /\ o # "wait"
        /\ cmdChan' = IF o = "queued" THEN Append(cmdChan, req.type) ELSE cmdChan
  /\ resp' = ServerReply(req.id, ResOk(OkDefault))
  /\ UNCHANGED <<req, stopFuts, delivered>>
  /\ Quiet
  /\ UNCHANGED <<devices, config, reserved, tasks, lastEvt>>
  /\ UNCHANGED <<evChan, cancelled, dropped, loopAlive, canScan, gen, serial,
                 scanningInProgress, pendingScans, lastStart>>
  /\ UNCHANGED restVars

(***************************************************************************)
(* The serial-port communication manager.                                  *)
(***************************************************************************)
\* The managers are numbered: the serial-port manager first, then the others.
SerialManager == 0
OtherManagers == 1..NumOtherManagers

\* A serial-port manager that reports it cannot scan.
can_scan_never(m) == IF m = SerialManager THEN FALSE ELSE canScan[m]

\* can_scan(): the serial-port manager can always scan; the other managers
\* answer for themselves.
can_scan(m) == IF m = SerialManager THEN TRUE ELSE canScan[m]

FoundEvent(address) == [type |-> "DeviceFound", address |-> address]
FinishedEvent == [type |-> "ScanningFinished"]

SerialIdle ==
  [pc |-> "idle", ports |-> <<>>, attempts |-> 0, waited |-> FALSE, failed |-> FALSE,
   result |-> "none"]

\* start_scanning(): the scan future starts.
SerialStarted ==
  [pc |-> "enumerate", ports |-> <<>>, attempts |-> 0, waited |-> FALSE, failed |-> FALSE,
   result |-> "none"]

\* A step of the scan future sends nothing to the client and leaves the
\* manager's state alone.
SerialFrame ==
  /\ Quiet
  /\ UNCHANGED dmRest
  /\ UNCHANGED <<cmdChan, cancelled, dropped, loopAlive, canScan, gen,
                 scanningInProgress, pendingScans, lastStart>>
  /\ UNCHANGED restVars

PortLists == {[k \in 1..n |-> k] : n \in 0..MaxPorts}

\* An enumeration whose failure ends the scan at once, nothing being sent.
SerialEnumerateSkipsFinished ==
  /\ serial.pc = "enumerate"
  /\ \/ \E ports \in PortLists :
          serial' = [serial EXCEPT !.ports = ports,
                                   !.pc = IF ports = <<>> THEN "sendFinished" ELSE "sendFound"]
     \/ serial' = [serial EXCEPT !.pc = "done", !.result = "Ok"]
  /\ evChan' = evChan
  /\ SerialFrame

\* match available_ports(): Ok(ports) starts the loop over the ports, Err(_)
\* goes on to the ScanningFinished send.
SerialEnumerate ==
  /\ serial.pc = "enumerate"
  /\ \/ \E ports \in PortLists :
          serial' = [serial EXCEPT !.ports = ports,
                                   !.pc = IF ports = <<>> THEN "sendFinished" ELSE "sendFound"]
     \/ serial' = [serial EXCEPT !.pc = "sendFinished"]
  /\ evChan' = evChan
  /\ SerialFrame

\* The loop over the ports with its break removed: a failed send goes on to
\* the next port.
SerialSendFoundNoBreak ==
  /\ serial.pc \in {"sendFound", "waitFound"}
  /\ LET o == SendOutcome(evChan, EvChanCap, loopAlive)
         rest == Tail(serial.ports)
         after == IF rest = <<>> THEN "sendFinished" ELSE "sendFound"
     IN CASE o = "closed" ->
               /\ serial' = [serial EXCEPT !.failed = TRUE, !.ports = rest, !.pc = after,
                                           !.attempts = IF serial.pc = "sendFound" THEN @ + 1 ELSE @]
               /\ evChan' = evChan
          [] o = "queued" ->
               /\ serial' = [serial EXCEPT !.ports = rest, !.pc = after,
                                           !.attempts = IF serial.pc = "sendFound" THEN @ + 1 ELSE @]
               /\ evChan' = Append(evChan, FoundEvent(Head(serial.ports)))
          [] OTHER ->
               /\ serial.pc = "sendFound"
               /\ serial' = [serial EXCEPT !.pc = "waitFound", !.attempts = @ + 1,
                                           !.waited = TRUE]
               /\ evChan' = evChan
  /\ SerialFrame

\* for p in ports: sender.send(DeviceFound{..}).await; is_err() breaks out of
\* the loop.  A send that finds the channel full suspends the future
\* (waitFound) and is resumed when there is room or the receiver is gone.
SerialSendFound ==
  /\ serial.pc \in {"sendFound", "waitFound"}
  /\ LET o == SendOutcome(evChan, EvChanCap, loopAlive)
         rest == Tail(serial.ports)
     IN CASE o = "closed" ->
               /\ serial' = [serial EXCEPT !.failed = TRUE, !.pc = "sendFinished",
                                           !.attempts = IF serial.pc = "sendFound" THEN @ + 1 ELSE @]
               /\ evChan' = evChan
          [] o = "queued" ->
               /\ serial' = [serial EXCEPT !.ports = rest,
                                           !.pc = IF rest = <<>> THEN "sendFinished" ELSE "sendFound",
                                           !.attempts = IF serial.pc = "sendFound" THEN @ + 1 ELSE @]
               /\ evChan' = Append(evChan, FoundEvent(Head(serial.ports)))
          [] OTHER ->
               /\ serial.pc = "sendFound"
               /\ serial' = [serial EXCEPT !.pc = "waitFound", !.attempts = @ + 1,
                                           !.waited = TRUE]
               /\ evChan' = evChan
  /\ SerialFrame

\* A scan that signals ScanningFinished and then signals it once more.
SerialSendFinishedTwice ==
  /\ serial.pc \in {"sendFinished", "waitFinished"}
  /\ LET o == SendOutcome(evChan, EvChanCap, loopAlive)
     IN CASE o = "closed" ->
               /\ serial' = [serial EXCEPT !.pc = "done", !.result = "Ok"]
               /\ evChan' = evChan
          [] o = "queued" ->
               /\ serial' = IF serial.result = "none"
                              THEN [serial EXCEPT !.result = "again"]
                              ELSE [serial EXCEPT !.pc = "done", !.result = "Ok"]
               /\ evChan' = Append(evChan, FinishedEvent)
          [] OTHER ->
               /\ serial.pc = "sendFinished"
               /\ serial' = [serial EXCEPT !.pc = "waitFinished"]
               /\ evChan' = evChan
  /\ SerialFrame

\* sender.send(ScanningFinished).await (an error is only logged), Ok(()).
SerialSendFinished ==
  /\ serial.pc \in {"sendFinished", "waitFinished"}
  /\ LET o == SendOutcome(evChan, EvChanCap, loopAlive)
     IN CASE o = "closed" ->
               /\ serial' = [serial EXCEPT !.pc = "done", !.result = "Ok"]
               /\ evChan' = evChan
          [] o = "queued" ->
               /\ serial' = [serial EXCEPT !.pc = "done", !.result = "Ok"]
               /\ evChan' = Append(evChan, FinishedEvent)
          [] OTHER ->
               /\ serial.pc = "sendFinished"
               /\ serial' = [serial EXCEPT !.pc = "waitFinished"]
               /\ evChan' = evChan
  /\ SerialFrame

(***************************************************************************)
(* The other communication managers: a started scan ends by sending the    *)
(* manager's ScanningFinished.  Written from the specification.            *)
(***************************************************************************)
OtherFinish(g) ==
  /\ gen[g] = "scanning"
  /\ LET o == SendOutcome(evChan, EvChanCap, loopAlive)
     IN /\ o # "wait"
        /\ evChan' = IF o = "queued" THEN Append(evChan, FinishedEvent) ELSE evChan
  /\ gen' = [gen EXCEPT ![g] = "idle"]
  /\ Quiet
  /\ UNCHANGED dmRest
  /\ UNCHANGED <<cmdChan, cancelled, dropped, loopAlive, canScan, serial,
                 scanningInProgress, pendingScans, lastStart>>
  /\ UNCHANGED restVars

(***************************************************************************)
(* The event loop's handling of scanning.  Written from the specification. *)
(***************************************************************************)
ScanManagers == {SerialManager} \cup OtherManagers
Scannable == {m \in ScanManagers : can_scan(m)}

LoopFrame ==
  /\ log' = "none"
  /\ UNCHANGED <<devices, config, reserved, tasks, lastEvt, req, resp, stopFuts, delivered>>
  /\ UNCHANGED <<cancelled, dropped, loopAlive, canScan>>
  /\ UNCHANGED restVars

\* StartScanning: start_scanning on every manager that can scan.  A request
\* that arrives while a scan is under way is ignored.
LoopStartScanning ==
  /\ loopAlive
  /\ cmdChan # <<>>
  /\ Head(cmdChan) = "StartScanning"
  /\ cmdChan' = Tail(cmdChan)
  /\ IF scanningInProgress
       THEN UNCHANGED <<gen, serial, scanningInProgress, pendingScans, lastStart>>
       ELSE /\ gen' = [g \in OtherManagers |-> IF can_scan(g) THEN "scanning" ELSE gen[g]]
            /\ serial' = IF can_scan(SerialManager) THEN SerialStarted ELSE serial
            /\ pendingScans' = Cardinality(Scannable)
            /\ scanningInProgress' = (Scannable # {})
            /\ lastStart' = Scannable
  /\ out' = <<>>
  /\ evChan' = evChan
  /\ LoopFrame

\* StopScanning: stop_scanning on every manager; the serial-port manager's
\* stop_scanning does nothing.
LoopStopScanning ==
  /\ loopAlive
  /\ cmdChan # <<>>
  /\ Head(cmdChan) = "StopScanning"
  /\ cmdChan' = Tail(cmdChan)
  /\ out' = <<>>
  /\ UNCHANGED <<evChan, gen, serial, scanningInProgress, pendingScans, lastStart>>
  /\ LoopFrame

\* An event of a communication manager: a manager's ScanningFinished is
\* counted, and the server's ScanningFinished goes out with the last one.
\* (The discovery a DeviceFound starts is in the DeviceFound action.)
LoopRecvEvent ==
  /\ loopAlive
  /\ evChan # <<>>
  /\ evChan' = Tail(evChan)
  /\ IF Head(evChan).type = "ScanningFinished" /\ scanningInProgress
       THEN /\ pendingScans' = pendingScans - 1
            /\ scanningInProgress' = (pendingScans - 1 > 0)
            /\ out' = IF pendingScans - 1 = 0 THEN <<FinishedEvent>> ELSE <<>>
       ELSE /\ out' = <<>>
            /\ UNCHANGED <<scanningInProgress, pendingScans>>
  /\ UNCHANGED <<cmdChan, gen, serial, lastStart>>
  /\ LoopFrame

\* A drop that leaves the cancellation token alone.
DropManagerKeepsToken ==
  /\ ~dropped
  /\ dropped' = TRUE
  /\ cancelled' = cancelled
  /\ Quiet
  /\ UNCHANGED dmRest
  /\ UNCHANGED <<cmdChan, evChan, loopAlive, canScan, gen, serial,
                 scanningInProgress, pendingScans, lastStart>>
  /\ UNCHANGED restVars

\* Drop for ServerDeviceManager: the cancellation token is cancelled.
DropManager ==
  /\ ~dropped
  /\ dropped' = TRUE
  /\ cancelled' = TRUE
  /\ Quiet
  /\ UNCHANGED dmRest
  /\ UNCHANGED <<cmdChan, evChan, loopAlive, canScan, gen, serial,
                 scanningInProgress, pendingScans, lastStart>>
  /\ UNCHANGED restVars

\* The event loop sees the cancellation and returns: its receivers are
\* dropped, and what was queued is lost.
LoopExit ==
  /\ cancelled
  /\ loopAlive
  /\ loopAlive' = FALSE
  /\ cmdChan' = <<>>
  /\ evChan' = <<>>
  /\ Quiet
  /\ UNCHANGED dmRest
  /\ UNCHANGED <<cancelled, dropped, canScan, gen, serial, scanningInProgress,
                 pendingScans, lastStart>>
  /\ UNCHANGED restVars

\* No device command future has been made, nothing was written.
\* No handshake has taken place and no ping timer runs.
PingIdle ==
  /\ maxPingTime = 0
  /\ handshook = FALSE
  /\ sincePing = 0
  /\ pingFired = FALSE

\* Nothing is registered with the builder and finish() has not been called.
BuilderIdle ==
  builder = [comm_managers |-> <<>>, config_ok |-> TRUE, result |-> None, loops |-> 0]

DevInit ==
  /\ futs = <<>>
  /\ hwLog = <<>>
  /\ cache = <<>>
  /\ allowRaw = FALSE
  /\ vmsg = None
  /\ vres = None
  /\ vconv = None

ScanInit ==
  /\ cmdChan = <<>>
  /\ evChan = <<>>
  /\ cancelled = FALSE
  /\ dropped = FALSE
  /\ loopAlive = TRUE
  /\ gen = [g \in OtherManagers |-> "idle"]
  /\ serial = SerialIdle
  /\ scanningInProgress = FALSE
  /\ pendingScans = 0
  /\ lastStart = {}

\* ServerDeviceManager::parse_message: a device command goes to its device,
\* a manager message to the manager, anything else is unexpected.
ParseMessage(msg) ==
  /\ ClientReady
  /\ IF msg.type \in DeviceCommandTypes THEN ParseDeviceMessage(msg)
     ELSE IF msg.type \in ManagerTypes
       THEN CASE msg.type = "RequestDeviceList" -> RequestDeviceList(msg)
              [] msg.type = "StopAllDevices" -> StopAllBegin(msg)
              [] OTHER -> ScanRequest(msg)
     ELSE UnexpectedMessage(msg)

(***************************************************************************)
(* The device manager: discovery, registration, removal, client messages.  *)
(***************************************************************************)
DmInit ==
  /\ devices = <<>>
  /\ config \in Configs
  /\ reserved = BuildReserved(config)
  /\ tasks = [t \in Tasks |-> IdleTask]
  /\ out = <<>>
  /\ log = "none"
  /\ lastEvt = <<>>
  /\ req = None
  /\ resp = None
  /\ stopFuts = <<>>
  /\ delivered = None

Init ==
  /\ DmInit
  /\ ScanInit
  /\ PingIdle
  /\ BuilderIdle
  /\ canScan = [g \in OtherManagers |-> FALSE]
  /\ DevInit

Next ==
  \/ \E t \in Tasks, h \in Hardware : DeviceFound(t, h)
  \/ \E t \in Tasks : SpecifierMatch(t)
  \/ \E t \in Tasks : Connect(t)
  \/ \E t \in Tasks : Identify(t)
  \/ \E t \in Tasks : AttributesLookup(t)
  \/ \E t \in Tasks : Initialize(t)
  \/ \E t \in Tasks : RegisterDevice(t)
  \/ \E i \in DOMAIN devices : DeviceDisconnect(i)
  \/ \E msg \in ClientMessages : ParseMessage(msg)
  \/ DeviceCmdComplete
  \/ \E i \in DOMAIN stopFuts : StopFutComplete(i)
  \/ StopAllAck

Spec == Init /\ [][Next]_vars

(***************************************************************************)
(* The client's side of the manager: every message parse_message takes,    *)
(* with the discovery pipeline taken in one step and the scan futures of   *)
(* the communication managers left unscheduled.                            *)
(***************************************************************************)
DiscoverReady(t, h) ==
  /\ tasks[t].stage = "Idle"
  /\ h \in Matching
  /\ tasks' = [tasks EXCEPT ![t] = [stage |-> "Ready", hw |-> h,
                                    passed |-> <<"Matched", "Connected", "Identified",
                                                 "AttributesResolved", "Ready">>]]
  /\ Quiet
  /\ UNCHANGED <<devices, config, reserved, lastEvt>>
  /\ ClientUnchanged

InitClient ==
  /\ DmInit
  /\ config = {}
  /\ ScanInit
  /\ PingIdle
  /\ BuilderIdle
  /\ canScan = [g \in OtherManagers |-> TRUE]
  /\ DevInit

NextClient ==
  \/ \E t \in Tasks, h \in Hardware : DiscoverReady(t, h)
  \/ \E t \in Tasks : RegisterDevice(t)
  \/ \E i \in DOMAIN devices : DeviceDisconnect(i)
  \/ \E msg \in ClientMessages \cup ScanMessages : ParseMessage(msg)
  \/ DeviceCmdComplete
  \/ \E i \in DOMAIN stopFuts : StopFutComplete(i)
  \/ StopAllAck
  \/ ScanCommandSend
  \/ LoopStartScanning
  \/ LoopStopScanning
  \/ DropManager
  \/ LoopExit

SpecClient == InitClient /\ [][NextClient]_vars

(***************************************************************************)
(* Scanning: the client's StartScanning and StopScanning, the event loop,  *)
(* the serial-port manager's scan and the scans of the other managers.     *)
(***************************************************************************)
InitScan ==
  /\ DmInit
  /\ config = {}
  /\ ScanInit
  /\ PingIdle
  /\ BuilderIdle
  /\ canScan \in [OtherManagers -> BOOLEAN]
  /\ DevInit

NextScan ==
  \/ \E msg \in ScanMessages : ParseMessage(msg)
  \/ ScanCommandSend
  \/ LoopStartScanning
  \/ LoopStopScanning
  \/ LoopRecvEvent
  \/ SerialEnumerate
  \/ SerialSendFound
  \/ SerialSendFinished
  \/ \E g \in OtherManagers : OtherFinish(g)
  \/ DropManager
  \/ LoopExit

SpecScan == InitScan /\ [][NextScan]_vars

(***************************************************************************)
(* Device commands as futures.  parse_device_message looks the device up   *)
(* and returns the future of ButtplugDevice::parse_message, which is the   *)
(* future of the protocol's handle_command; nothing runs until the future  *)
(* is polled, and the caller may hold several futures at once.  The        *)
(* protocol handler is written from the specification: feature index       *)
(* check, last-sent cache, hardware write.                                 *)
(***************************************************************************)
FeatureIndices == 0..MaxFeatureIndex
Levels == 0..MaxLevel

\* The number of scalar features the device's protocol declares.
FeatureCount(dev) == IF dev.protocol = <<"p">> THEN 2 ELSE 1

ScalarCmd(k, i, index, level) ==
  [type |-> "ScalarCmd", id |-> k, device_index |-> i, index |-> index, level |-> level]

DeviceFutureMessages ==
  {ScalarCmd(k, i, f, l) : k \in Ids, i \in CmdIndices, f \in FeatureIndices, l \in Levels}

\* A handler that remembers nothing.
LastSentForgotten(i, f, l) == FALSE

\* Is l the level last written to feature f of device i?
LastSent(i, f, l) == <<i, f>> \in DOMAIN cache /\ cache[<<i, f>>] = l

\* A write of the device's hardware, made by future number n.
HwWrite(n, i, f, l) ==
  [fut |-> n, device_index |-> i, op |-> "write", index |-> f, level |-> l]

\* A raw read, write, subscribe or unsubscribe done on the hardware.
HwRaw(n, i, type) == [fut |-> n, device_index |-> i, op |-> type]

RawTypes == {"RawReadCmd", "RawWriteCmd", "RawSubscribeCmd", "RawUnsubscribeCmd"}

RawCmd(type, k, i) == [type |-> type, id |-> k, device_index |-> i, endpoint |-> "tx"]

RawMessages == {RawCmd(ty, k, i) : ty \in RawTypes, k \in Ids, i \in CmdIndices}

\* ServerDeviceManagerBuilder::allow_raw_messages: the flag of the
\* configuration manager builder is set.
allow_raw_messages(flag) == TRUE

\* The messages in the device's attribute set; with raw messages allowed
\* the four raw messages are added to it.
MessageAttributes(dev) ==
  {"ScalarCmd", "StopDeviceCmd"} \cup (IF allowRaw THEN RawTypes ELSE {})

\* A handler that takes every message.
supports_message_always(dev, type) == TRUE

\* ButtplugProtocol::supports_message.
supports_message(dev, type) == type \in MessageAttributes(dev)

DevFrame ==
  /\ Quiet
  /\ UNCHANGED msgVars
  /\ UNCHANGED pingVars
  /\ UNCHANGED builder
  /\ UNCHANGED dmRest
  /\ UNCHANGED scanVars

\* ServerDeviceManager::parse_device_message, the caller keeping the future:
\* a device that is in the map gives its parse_message future, any other
\* index a future that is ready with DeviceNotAvailable(index).
SubmitDeviceCmd(msg) ==
  /\ Len(futs) < MaxCmds
  /\ futs' = Append(futs,
        IF msg.device_index \in DOMAIN devices
          THEN [cmd |-> msg, state |-> "pending", result |-> None]
          ELSE [cmd |-> msg, state |-> "done",
                result |-> ResErr("Device", "DeviceNotAvailable", msg.device_index)])
  /\ UNCHANGED <<hwLog, cache, allowRaw>>
  /\ DevFrame

\* A handler that does not look at the feature count.
HandleScalarAnyIndex(n, cmd) ==
  IF LastSent(cmd.device_index, cmd.index, cmd.level)
    THEN [writes |-> <<>>, cache |-> cache, result |-> ResOk(OkDefault)]
    ELSE [writes |-> <<HwWrite(n, cmd.device_index, cmd.index, cmd.level)>>,
          cache |-> (<<cmd.device_index, cmd.index>> :> cmd.level) @@ cache,
          result |-> ResOk(OkDefault)]

\* What the handler does with a ScalarCmd: an index the device does not
\* declare is refused, a level equal to the last one sent is not written
\* again, anything else is written and remembered.
HandleScalar(n, cmd) ==
  LET i == cmd.device_index
      f == cmd.index
  IN IF f >= FeatureCount(devices[i])
       THEN [writes |-> <<>>, cache |-> cache,
             result |-> ResErr("Device", "DeviceFeatureIndexError", f)]
     ELSE IF LastSent(i, f, cmd.level)
       THEN [writes |-> <<>>, cache |-> cache, result |-> ResOk(OkDefault)]
     ELSE [writes |-> <<HwWrite(n, i, f, cmd.level)>>,
           cache |-> (<<i, f>> :> cmd.level) @@ cache,
           result |-> ResOk(OkDefault)]

\* protocol.name(): the protocol's name, here the protocol identifier.
ProtocolName(dev) == dev.protocol

\* A name that never tells of raw messages.
name_plain(dev) == ProtocolName(dev)

\* ButtplugDevice::name: format!("{} (Raw Messages Allowed)", ..) when
\* supports_message of a RawSubscribeCmd is Ok, else the protocol name.
name(dev) ==
  IF supports_message(dev, "RawSubscribeCmd")
    THEN ProtocolName(dev) \o <<" (Raw Messages Allowed)">>
    ELSE ProtocolName(dev)

\* The name of the device at an index of the map is asked for.
DeviceNameCall(index) ==
  /\ index \in DOMAIN devices
  /\ req' = [type |-> "name", index |-> index]
  /\ resp' = [type |-> "name", name |-> name(devices[index])]
  /\ Quiet
  /\ UNCHANGED <<devices, config, reserved, tasks, lastEvt, stopFuts, delivered>>
  /\ UNCHANGED scanVars
  /\ UNCHANGED restVars

\* A raw command goes to the hardware as it is.
HandleRaw(n, cmd) ==
  [writes |-> <<HwRaw(n, cmd.device_index, cmd.type)>>, cache |-> cache,
   result |-> ResOk(OkDefault)]

\* handle_command: a message outside the device's attribute set is refused
\* with DeviceNotSupportedMessageType before anything is done.
HandleCommand(n, cmd) ==
  IF ~supports_message(devices[cmd.device_index], cmd.type)
    THEN [writes |-> <<>>, cache |-> cache,
          result |-> ResErr("Device", "DeviceNotSupportedMessageType", cmd.type)]
  ELSE IF cmd.type \in RawTypes THEN HandleRaw(n, cmd)
  ELSE HandleScalar(n, cmd)

\* The executor polls one of the futures the caller holds:
\* ButtplugDevice::parse_message -> protocol.handle_command runs.
PollFuture(n) ==
  /\ n \in DOMAIN futs
  /\ futs[n].state = "pending"
  /\ LET h == HandleCommand(n, futs[n].cmd)
     IN /\ hwLog' = hwLog \o h.writes
        /\ cache' = h.cache
        /\ futs' = [futs EXCEPT ![n].state = "done", ![n].result = h.result]
  /\ allowRaw' = allowRaw
  /\ DevFrame

ServerDeviceInfo(device) == [identifier |-> Triple(device), display_name |-> None]

\* A lookup that answers with the first device when the index is absent.
device_info_any(index) ==
  IF DOMAIN devices # {}
    THEN ResOk(ServerDeviceInfo(devices[CHOOSE i \in DOMAIN devices : \A j \in DOMAIN devices : i <= j]))
    ELSE ResErr("Device", "DeviceNotAvailable", index)

\* ServerDeviceManager::device_info.
device_info(index) ==
  IF index \in DOMAIN devices
    THEN ResOk(ServerDeviceInfo(devices[index]))
    ELSE ResErr("Device", "DeviceNotAvailable", index)

\* The caller asks for the info of an index and gets the result at once.
DeviceInfoCall(index) ==
  /\ req' = [type |-> "device_info", index |-> index]
  /\ resp' = device_info(index)
  /\ Quiet
  /\ UNCHANGED <<devices, config, reserved, tasks, lastEvt, stopFuts, delivered>>
  /\ UNCHANGED scanVars
  /\ UNCHANGED restVars

LiveDevices ==
  {(1 :> NewDevice(HwA)) @@ (2 :> NewDevice(HwB)), (1 :> NewDevice(HwB))}

InitDevice ==
  /\ devices \in LiveDevices
  /\ config = {}
  /\ reserved = <<>>
  /\ tasks = [t \in Tasks |-> IdleTask]
  /\ out = <<>>
  /\ log = "none"
  /\ lastEvt = [i \in DOMAIN devices |-> "added"]
  /\ req = None
  /\ resp = None
  /\ stopFuts = <<>>
  /\ delivered = None
  /\ ScanInit
  /\ PingIdle
  /\ BuilderIdle
  /\ canScan = [g \in OtherManagers |-> FALSE]
  /\ futs = <<>>
  /\ hwLog = <<>>
  /\ cache = <<>>
  /\ allowRaw = FALSE
  /\ vmsg = None
  /\ vres = None
  /\ vconv = None

NextDevice ==
  \/ \E msg \in DeviceFutureMessages : SubmitDeviceCmd(msg)
  \/ \E n \in DOMAIN futs : PollFuture(n)
  \/ \E i \in CmdIndices : DeviceInfoCall(i)

SpecDevice == InitDevice /\ [][NextDevice]_vars

(***************************************************************************)
(* Raw commands, with the allow_raw_messages flag set by the builder or    *)
(* left alone.                                                             *)
(***************************************************************************)
RawGateMessages == RawMessages \cup {ScalarCmd(k, 1, 0, l) : k \in Ids, l \in Levels}

InitRaw ==
  /\ devices \in LiveDevices
  /\ config = {}
  /\ reserved = <<>>
  /\ tasks = [t \in Tasks |-> IdleTask]
  /\ out = <<>>
  /\ log = "none"
  /\ lastEvt = [i \in DOMAIN devices |-> "added"]
  /\ req = None
  /\ resp = None
  /\ stopFuts = <<>>
  /\ delivered = None
  /\ ScanInit
  /\ PingIdle
  /\ BuilderIdle
  /\ canScan = [g \in OtherManagers |-> FALSE]
  /\ futs = <<>>
  /\ hwLog = <<>>
  /\ cache = <<>>
  /\ allowRaw \in {FALSE, allow_raw_messages(FALSE)}
  /\ vmsg = None
  /\ vres = None
  /\ vconv = None

NextRaw ==
  \/ \E msg \in RawGateMessages : SubmitDeviceCmd(msg)
  \/ \E n \in DOMAIN futs : PollFuture(n)
  \/ \E i \in CmdIndices : DeviceNameCall(i)

SpecRaw == InitRaw /\ [][NextRaw]_vars

(***************************************************************************)
(* Message validation.  An f64 is a NaN or a number of steps; 0.0 is step  *)
(* 0 and 1.0 is step ScalarOne.                                            *)
(***************************************************************************)
F64(v) == [nan |-> FALSE, v |-> v]
NaN == [nan |-> TRUE, v |-> 0]

F64Values == {F64(v) : v \in (0 - ScalarRange)..(ScalarOne + ScalarRange)} \cup {NaN}

\* ScalarSubcommand::new.
ScalarSubcommand(index, scalar) == [index |-> index, scalar |-> scalar]

Subcommands == {ScalarSubcommand(i, x) : i \in FeatureIndices, x \in F64Values}

SubcommandLists == UNION {[1..n -> Subcommands] : n \in 0..MaxSubs}

\* A ScalarCmd as it is deserialized: any id, any subcommands.
ScalarCmdOf(k, i, scalars) ==
  [type |-> "ScalarCmd", id |-> k, device_index |-> i, scalars |-> scalars]

ScalarCmdInputs == {ScalarCmdOf(k, 1, l) : k \in 0..MaxId, l \in SubcommandLists}

ValidOk == [ok |-> TRUE]
InvalidMessageContents(why) ==
  [ok |-> FALSE, kind |-> "Message", what |-> "InvalidMessageContents", why |-> why]

\* is_not_system_id: the id 0 is the system's.
is_not_system_id(id) ==
  IF id = 0 THEN InvalidMessageContents([field |-> "id"]) ELSE ValidOk

\* is_in_command_range: 0.0 <= value <= 1.0; a NaN is in no range.
is_in_command_range(value, error_msg) ==
  IF ~value.nan /\ 0 <= value.v /\ value.v <= ScalarOne
    THEN ValidOk
    ELSE InvalidMessageContents(error_msg)

\* The loop over the subcommands: the first error is returned.
RECURSIVE CheckLevels(_)
CheckLevels(scalars) ==
  IF scalars = <<>> THEN ValidOk
  ELSE LET level == Head(scalars)
           r == is_in_command_range(level.scalar,
                  [field |-> "scalar", scalar |-> level.scalar, index |-> level.index])
       IN IF r.ok THEN CheckLevels(Tail(scalars)) ELSE r

\* A validator that looks at the first subcommand only.
is_valid_first_only(cmd) ==
  IF ~is_not_system_id(cmd.id).ok THEN is_not_system_id(cmd.id)
  ELSE IF cmd.scalars = <<>> THEN ValidOk
  ELSE CheckLevels(<<Head(cmd.scalars)>>)

\* ScalarCmd::is_valid.
is_valid(cmd) ==
  IF ~is_not_system_id(cmd.id).ok THEN is_not_system_id(cmd.id)
  ELSE CheckLevels(cmd.scalars)

\* The message is validated.
Validate ==
  /\ vmsg # None
  /\ vres = None
  /\ vres' = is_valid(vmsg)
  /\ vmsg' = vmsg
  /\ vconv' = vconv
  /\ Quiet
  /\ UNCHANGED dmRest
  /\ UNCHANGED scanVars
  /\ UNCHANGED devVars
  /\ UNCHANGED pingVars
  /\ UNCHANGED builder

InitValid ==
  /\ DmInit
  /\ config = {}
  /\ ScanInit
  /\ PingIdle
  /\ BuilderIdle
  /\ canScan = [g \in OtherManagers |-> FALSE]
  /\ futs = <<>>
  /\ hwLog = <<>>
  /\ cache = <<>>
  /\ allowRaw = FALSE
  /\ vmsg \in ScalarCmdInputs
  /\ vres = None
  /\ vconv = None

NextValid == Validate

SpecValid == InitValid /\ [][NextValid]_vars

(***************************************************************************)
(* Cancellation: the manager is dropped while discovery tasks and a scan   *)
(* run.  The executor keeps scheduling the event loop and the tasks, so    *)
(* each of them sees a cancelled token in the end.                         *)
(***************************************************************************)
InitCancel ==
  /\ DmInit
  /\ config = {}
  /\ ScanInit
  /\ PingIdle
  /\ BuilderIdle
  /\ canScan = [g \in OtherManagers |-> TRUE]
  /\ DevInit

NextCancel ==
  \/ \E t \in Tasks, h \in Hardware : DeviceFound(t, h)
  \/ \E t \in Tasks : SpecifierMatch(t)
  \/ \E t \in Tasks : Connect(t)
  \/ \E t \in Tasks : Identify(t)
  \/ \E t \in Tasks : AttributesLookup(t)
  \/ \E t \in Tasks : Initialize(t)
  \/ \E t \in Tasks : RegisterDevice(t)
  \/ \E t \in Tasks : TaskCancel(t)
  \/ \E i \in DOMAIN devices : DeviceDisconnect(i)
  \/ \E k \in Ids : ParseMessage(PlainMsg("StartScanning", k))
  \/ ScanCommandSend
  \/ LoopStartScanning
  \/ LoopRecvEvent
  \/ SerialEnumerate
  \/ SerialSendFound
  \/ SerialSendFinished
  \/ \E g \in OtherManagers : OtherFinish(g)
  \/ DropManager
  \/ LoopExit

SpecCancel ==
  /\ InitCancel
  /\ [][NextCancel]_vars
  /\ WF_vars(LoopExit)
  /\ \A t \in Tasks : WF_vars(TaskCancel(t))

(***************************************************************************)
(* Properties of the device manager.                                       *)
(***************************************************************************)
AllStages == <<"Matched", "Connected", "Identified", "AttributesResolved", "Ready">>

\* The step hands the device of task t to the event loop.
Completes(t) == tasks[t].stage = "Ready" /\ tasks'[t].stage = "Idle"

\* The step ends task t before it had a device.
Fails(t) ==
  /\ tasks[t].stage \in {"Advertised", "Matched", "Connected", "Identified", "AttributesResolved"}
  /\ tasks'[t].stage = "Idle"

AddedNow == {i \in DOMAIN devices' : EmittedNext(DeviceAdded(i))}
AnyAddedNext == \E k \in 1..Len(out') : out'[k].type = "DeviceAdded"

TripleOfTask(t) == <<tasks[t].hw.protocol, tasks[t].hw.attrs, tasks[t].hw.address>>
PresentTriple(tr) == \E i \in DOMAIN devices : Triple(devices[i]) = tr

UniquePerIdentifier ==
  \A i, j \in DOMAIN devices : i # j => Triple(devices[i]) # Triple(devices[j])

DuplicateLeftOut ==
  \A t \in Tasks :
    (Completes(t) /\ PresentTriple(TripleOfTask(t))) =>
      (devices' = devices /\ ~AnyAddedNext)

\* C1: the live map never holds two devices with the same identifier
\* (protocol name, attributes identifier, address), and a discovery that
\* completes for an identifier already in the map leaves the map as it is
\* and broadcasts no DeviceAdded.
C1_UniqueIdentifier == []UniquePerIdentifier /\ [][DuplicateLeftOut]_vars

\* A duplicate has just been turned away while its twin is in the map.
C1_Witness == log = "duplicate" /\ DOMAIN devices # {}

AddedOnlyWhenReady ==
  \A k \in 1..Len(out') :
    out'[k].type = "DeviceAdded" =>
      \E t \in Tasks :
        /\ Completes(t)
        /\ tasks[t].passed = AllStages
        /\ out'[k].index \in DOMAIN devices'
        /\ Triple(devices'[out'[k].index]) = TripleOfTask(t)

FailureLeavesNoTrace ==
  \A t \in Tasks : Fails(t) => (devices' = devices /\ ~AnyAddedNext)

\* C3: DeviceAdded is broadcast only in the step that completes a discovery
\* which passed specifier match, connect, identify, attribute lookup and
\* initialize, in that order, and which put the device in the live map under
\* the announced index; a discovery that fails at a stage broadcasts no
\* DeviceAdded and leaves the live map unchanged.
C3_AddedAfterAllStages == [][AddedOnlyWhenReady /\ FailureLeavesNoTrace]_vars

\* A device has just been announced and sits in the map at that index.
C3_Witness ==
  \E i \in DOMAIN devices : Emitted(DeviceAdded(i)) /\ lastEvt[i] = "added"

IsNotAvailable(r, i) ==
  r.type = "Error" /\ r.what = "DeviceNotAvailable" /\ r.arg = i

\* The step submits a device command to the manager.
SubmitsDeviceCmd ==
  /\ ClientReady
  /\ req'.type \in DeviceCommandTypes
  /\ <<req', resp', delivered'>> # <<req, resp, delivered>>

RemovedFollowsAdded ==
  \A k \in 1..Len(out') :
    out'[k].type = "DeviceRemoved" =>
      /\ out'[k].index \in DOMAIN lastEvt
      /\ lastEvt[out'[k].index] = "added"
      /\ out'[k].index \notin DOMAIN devices'

LeavingIsAnnounced ==
  \A i \in DOMAIN devices : i \notin DOMAIN devices' => EmittedNext(DeviceRemoved(i))

RemovedIsNotAvailable ==
  SubmitsDeviceCmd =>
    \A i \in DOMAIN lastEvt :
      (lastEvt[i] = "removed" /\ req'.device_index = i) =>
        (IsNotAvailable(resp', i) /\ resp'.id = req'.id /\ delivered' = None)

\* C4: a DeviceRemoved for index i is broadcast only when the last lifecycle
\* event broadcast for i was a DeviceAdded; a device leaves the live map only
\* with a DeviceRemoved for its index; and while the last event for i is the
\* DeviceRemoved, a device command naming i is answered DeviceNotAvailable(i)
\* and reaches no device.
C4_RemovedLifecycle ==
  [][RemovedFollowsAdded /\ LeavingIsAnnounced /\ RemovedIsNotAvailable]_vars

\* A command for the index of a removed device has been refused.
C4_Witness ==
  /\ req.type \in DeviceCommandTypes
  /\ req.device_index \in DOMAIN lastEvt
  /\ lastEvt[req.device_index] = "removed"
  /\ IsNotAvailable(resp, req.device_index)

Bound(tr) == \E b \in config : b.identifier = tr
BoundIndex(tr) == (CHOOSE b \in config : b.identifier = tr).index
IsSmallestUnused(i) ==
  i >= 1 /\ i \notin DOMAIN devices /\ \A j \in 1..(i - 1) : j \in DOMAIN devices

IndexAsConfigured ==
  \A t \in Tasks :
    (Completes(t) /\ AnyAddedNext) =>
      \A i \in AddedNow :
        IF Bound(TripleOfTask(t)) THEN i = BoundIndex(TripleOfTask(t))
        ELSE IsSmallestUnused(i)

\* C6: a registered device whose identifier was given a reserved index gets
\* exactly that index, at every registration; any other device gets the
\* smallest index >= 1 that is not a key of the live map.
C6_IndexAssignment == [][IndexAsConfigured]_vars

\* A device sits at its reserved index 2 while index 1 is free.
C6_Witness ==
  \E i \in DOMAIN devices :
    /\ Emitted(DeviceAdded(i))
    /\ Bound(Triple(devices[i]))
    /\ i = BoundIndex(Triple(devices[i]))
    /\ 1 \notin DOMAIN devices
    /\ lastEvt[i] = "added"

\* The step is the first poll of stop_all_devices.
BeginsStopAll ==
  /\ ClientReady
  /\ req'.type = "StopAllDevices"
  /\ resp' = None

StopSentToAll ==
  BeginsStopAll =>
    /\ DOMAIN stopFuts' = DOMAIN devices
    /\ \A i \in DOMAIN stopFuts' :
         stopFuts'[i].cmd.type = "StopDeviceCmd" /\ ~stopFuts'[i].done

AckAfterAllStops ==
  (req.type = "StopAllDevices" /\ resp # None) =>
    (resp.type = "Ok" /\ \A i \in DOMAIN stopFuts : stopFuts[i].done)

\* C7: StopAllDevices hands one StopDeviceCmd to every device that is in the
\* live map when the request is processed, and the Ok is given only once the
\* stop future of each of those devices has completed.
C7_StopAll == [][StopSentToAll]_vars /\ []AckAfterAllStops

\* StopAllDevices has been acknowledged after the stops of two devices.
C7_Witness ==
  /\ req.type = "StopAllDevices"
  /\ resp.type = "Ok"
  /\ Cardinality(DOMAIN stopFuts) >= 2
(***************************************************************************)
(* Properties of the client's messages and of scanning.                    *)
(***************************************************************************)
HandledTypes == DeviceCommandTypes \cup ManagerTypes

HandlesStartScanning ==
  /\ loopAlive /\ loopAlive'
  /\ cmdChan # <<>>
  /\ Head(cmdChan) = "StartScanning"
  /\ cmdChan' = Tail(cmdChan)
  /\ ~scanningInProgress

SerialStartedNow == serial' = SerialStarted
OtherStartedNow(g) == gen[g] = "idle" /\ gen'[g] = "scanning"

StartsWhoCanScan ==
  HandlesStartScanning =>
     /\ SerialStartedNow
     /\ \A g \in OtherManagers : canScan[g] <=> OtherStartedNow(g)
     /\ lastStart' = {SerialManager} \cup {g \in OtherManagers : canScan[g]}

\* No manager starts a scan in a step that handles no StartScanning.
StartsOnlyOnRequest ==
  ((serial' # serial /\ SerialStartedNow) \/ (\E g \in OtherManagers : OtherStartedNow(g)))
     => HandlesStartScanning

\* A StartScanning the client sent is handed to the event loop.
RequestReachesLoop ==
  (req.type = "StartScanning" /\ resp = None /\ resp' # None /\ loopAlive)
     => cmdChan' = Append(cmdChan, "StartScanning")

Unreported(m) ==
  /\ m \in lastStart
  /\ IF m = SerialManager THEN serial.pc \notin {"idle", "done"} ELSE gen[m] = "scanning"

ServerFinished == Emitted(FinishedEvent)

EventChannelFull == Len(evChan) = EvChanCap

\* The step is a step of the serial-port manager's scan.
SerialStep == serial' # serial /\ serial.pc \notin {"idle", "done"} /\ serial'.pc # "enumerate"

\* C10 as the specification states it: a send of DeviceFound that finds the
\* event channel full fails instead of waiting.
C10_FullChannelFails ==
  [][(SerialStep /\ serial.pc = "sendFound" /\ EventChannelFull) => serial'.failed]_vars

FullChannelWaits ==
  (SerialStep /\ serial.pc = "sendFound" /\ EventChannelFull /\ loopAlive)
     => /\ serial'.pc = "waitFound"
        /\ ~serial'.failed
        /\ evChan' = evChan

FailsOnlyWhenLoopGone ==
  (SerialStep /\ ~serial.failed /\ serial'.failed) => ~loopAlive

NothingFoundAfterFailure ==
  (SerialStep /\ serial.failed)
     => /\ serial'.attempts = serial.attempts
        /\ serial'.pc = "done"
        /\ serial'.result = "Ok"
        /\ evChan' = evChan

FailureEndsTheLoop ==
  (SerialStep /\ ~serial.failed /\ serial'.failed) => serial'.pc = "sendFinished"

\* C10, amended: a send of DeviceFound that finds the event channel full
\* waits for room; a send fails only when the event loop has gone.  After a
\* failed send the serial-port manager attempts no further DeviceFound in
\* that scan, goes on to its ScanningFinished, and the scan ends with Ok.
C10_SendFailsWhenLoopGone ==
  [][/\ FullChannelWaits
     /\ FailsOnlyWhenLoopGone
     /\ FailureEndsTheLoop
     /\ NothingFoundAfterFailure]_vars

\* A scan that waited on a full channel, then failed a send with ports
\* still to report, and ended with Ok.
C10_Witness ==
  /\ serial.waited
  /\ serial.failed
  /\ Len(serial.ports) > 1
  /\ serial.pc = "done"
  /\ serial.result = "Ok"

(***************************************************************************)
(* Properties of cancellation.                                             *)
(***************************************************************************)
\* The event loop has returned and no discovery task runs.
AllStopped == ~loopAlive /\ \A t \in Tasks : tasks[t].stage = "Idle"

LoopMessageTypes == {"DeviceAdded", "DeviceRemoved", "ScanningFinished"}

\* The step sends one of the event loop's messages to the client.
LoopMessageNext == \E k \in 1..Len(out') : out'[k].type \in LoopMessageTypes

\* Once the loop has seen the cancellation it stays stopped, sends nothing
\* and starts nothing.
SilentAfterExit ==
  ~loopAlive =>
     /\ ~loopAlive'
     /\ ~LoopMessageNext
     /\ devices' = devices
     /\ \A t \in Tasks : tasks[t].stage = "Idle" => tasks'[t].stage = "Idle"

\* C11: dropping the manager cancels the root token; the event loop and
\* every discovery task then stop in the end, and no DeviceAdded,
\* DeviceRemoved or ScanningFinished is sent once the loop has seen the
\* cancellation.
C11_DropStopsEverything ==
  /\ [](dropped => cancelled)
  /\ dropped ~> AllStopped
  /\ [][SilentAfterExit]_vars

\* The manager was dropped with a discovery task in flight and devices in
\* the map; the task saw the cancellation after the loop had returned.
C11_Witness ==
  /\ dropped
  /\ AllStopped
  /\ log = "cancelled"
  /\ DOMAIN devices # {}
  /\ scanningInProgress

NotAvailable(i) == ResErr("Device", "DeviceNotAvailable", i)

WritesOf(n) == {k \in DOMAIN hwLog : hwLog[k].fut = n}

AbsentCommandRefused ==
  \A n \in DOMAIN futs :
     futs[n].cmd.device_index \notin DOMAIN devices =>
        /\ futs[n].state = "done"
        /\ futs[n].result = NotAvailable(futs[n].cmd.device_index)
        /\ WritesOf(n) = {}

AbsentInfoRefused ==
  (req.type = "device_info" /\ req.index \notin DOMAIN devices) =>
     resp = NotAvailable(req.index)

\* C13: a device command whose device_index is not a key of the device map
\* is answered DeviceNotAvailable(device_index) and reaches no device, and
\* device_info of such an index returns DeviceNotAvailable(index) too.
C13_NotAvailable == AbsentCommandRefused /\ AbsentInfoRefused

\* With a device in the map, a command and a device_info for an absent
\* index were both refused.
C13_Witness ==
  /\ DOMAIN devices # {}
  /\ \E n \in DOMAIN futs : futs[n].cmd.device_index \notin DOMAIN devices
  /\ req.type = "device_info"
  /\ req.index \notin DOMAIN devices
  /\ hwLog # <<>>

\* The step answers the client's message with an Error.
AnswersWithError == resp' # resp /\ resp'.type = "Error"

ErrorChangesNothing ==
  AnswersWithError =>
     /\ devices' = devices
     /\ lastEvt' = lastEvt
     /\ tasks' = tasks
     /\ out' = <<>>
     /\ hwLog' = hwLog

\* After an Error the manager takes any next message.
ServesAfterError ==
  resp.type = "Error" => \A msg \in ClientMessages : ENABLED ParseMessage(msg)

\* A message that was taken and is not answered yet can be answered.
AnswerComes ==
  (req # None /\ resp = None) =>
     ENABLED (DeviceCmdComplete \/ StopAllAck \/ \E i \in DOMAIN stopFuts : StopFutComplete(i))

RawFutures == {n \in DOMAIN futs : futs[n].cmd.type \in RawTypes /\ futs[n].state = "done"
                                    /\ futs[n].cmd.device_index \in DOMAIN devices}

RawRefusedWhenNotAllowed ==
  ~allowRaw =>
     \A n \in RawFutures :
        /\ futs[n].result = ResErr("Device", "DeviceNotSupportedMessageType", futs[n].cmd.type)
        /\ WritesOf(n) = {}

RawDispatchedWhenAllowed ==
  allowRaw =>
     \A n \in RawFutures :
        /\ futs[n].result.ok
        /\ \E k \in WritesOf(n) : hwLog[k] = HwRaw(n, futs[n].cmd.device_index, futs[n].cmd.type)

\* C15: with allow_raw_messages not set, a RawReadCmd, RawWriteCmd,
\* RawSubscribeCmd or RawUnsubscribeCmd sent to a device is refused with
\* DeviceNotSupportedMessageType and nothing is done on the hardware; with
\* the flag set the raw command is done on the hardware.
C15_RawGate == RawRefusedWhenNotAllowed /\ RawDispatchedWhenAllowed

\* Without the flag a raw command was refused while a ScalarCmd was written.
C15_Witness ==
  /\ ~allowRaw
  /\ RawFutures # {}
  /\ hwLog # <<>>

HasRawSuffix(str) == Len(str) > 0 /\ str[Len(str)] = " (Raw Messages Allowed)"

NameAsked == req.type = "name"

NameTellsOfRaw ==
  NameAsked =>
     /\ HasRawSuffix(resp.name) <=> allowRaw
     /\ allowRaw => SubSeq(resp.name, 1, Len(resp.name) - 1) = devices[req.index].protocol
     /\ ~allowRaw => resp.name = devices[req.index].protocol

\* A device that did a raw command is listed with the suffix.
RawDeviceListedWithSuffix ==
  \A n \in RawFutures :
     (futs[n].result.ok /\ NameAsked /\ req.index = futs[n].cmd.device_index)
        => HasRawSuffix(resp.name)

\* C16: ButtplugDevice::name returns the protocol name followed by
\* " (Raw Messages Allowed)" exactly when the device's protocol takes raw
\* messages, and the protocol name as it is otherwise; a device that takes
\* raw commands is never listed without the suffix.
C16_NameSuffix == NameTellsOfRaw /\ RawDeviceListedWithSuffix

\* The name of a device that has done a raw command was asked for.
C16_Witness ==
  /\ NameAsked
  /\ HasRawSuffix(resp.name)
  /\ \E n \in RawFutures : futs[n].result.ok /\ req.index = futs[n].cmd.device_index

(***************************************************************************)
(* Properties of message validation.                                       *)
(***************************************************************************)
\* The f64 lies in [0.0, 1.0].
InUnitInterval(x) == x.nan = FALSE /\ x.v \in 0..ScalarOne

EveryScalarInRange(cmd) ==
  \A k \in 1..Len(cmd.scalars) : InUnitInterval(cmd.scalars[k].scalar)

Validated == vres # None

\* C17: ScalarCmd::is_valid returns Ok exactly when the id is not 0 and
\* every subcommand's scalar lies in [0.0, 1.0] (an empty list with id not 0
\* is valid); otherwise it returns InvalidMessageContents.  No ScalarCmd
\* that validation takes has a scalar outside [0, 1].
C17_ScalarCmdValid ==
  Validated =>
     /\ vres.ok <=> (vmsg.id # 0 /\ EveryScalarInRange(vmsg))
     /\ ~vres.ok => vres.what = "InvalidMessageContents"
     /\ (vmsg.id # 0 /\ vmsg.scalars = <<>>) => vres.ok

\* A command was refused for its second scalar, the first being in range.
C17_Witness ==
  /\ Validated
  /\ ~vres.ok
  /\ vmsg.id # 0
  /\ Len(vmsg.scalars) = 2
  /\ InUnitInterval(vmsg.scalars[1].scalar)
  /\ vres.why.field = "scalar"
  /\ vres.why.index = vmsg.scalars[2].index

(***************************************************************************)
(* Properties of the protocol handler.                                     *)
(***************************************************************************)
\* The ScalarCmd futures that have run on a device of the map.
ScalarDone ==
  {n \in DOMAIN futs : /\ futs[n].cmd.type = "ScalarCmd"
                       /\ futs[n].state = "done"
                       /\ futs[n].cmd.device_index \in DOMAIN devices}

OutOfRange(n) == futs[n].cmd.index >= FeatureCount(devices[futs[n].cmd.device_index])

\* What the client gets for future n.
ReplyOf(n) == ServerReply(futs[n].cmd.id, futs[n].result)

BadIndexRefused ==
  \A n \in ScalarDone :
     OutOfRange(n) =>
        /\ ReplyOf(n).type = "Error"
        /\ ReplyOf(n).what = "DeviceFeatureIndexError"
        /\ ReplyOf(n).code = 4
        /\ ReplyOf(n).id = futs[n].cmd.id
        /\ WritesOf(n) = {}

WritesWithinFeatures ==
  \A k \in DOMAIN hwLog :
     hwLog[k].op = "write" => hwLog[k].index < FeatureCount(devices[hwLog[k].device_index])

\* C18: a device command whose subcommand index is not below the device's
\* declared feature count is never accepted: it is answered with the device
\* error DeviceFeatureIndexError (wire code 4) with the command's id, and
\* nothing is written to the hardware.
C18_FeatureIndexBound == BadIndexRefused /\ WritesWithinFeatures

\* A command with id 2 for a feature the device does not have was refused
\* after a command for a feature it has was written.
C18_Witness ==
  /\ hwLog # <<>>
  /\ \E n \in ScalarDone : OutOfRange(n) /\ futs[n].cmd.id = 2

\* The writes in the log that went to feature f of device i.
WritesTo(i, f) ==
  {k \in DOMAIN hwLog : hwLog[k].op = "write" /\ hwLog[k].device_index = i /\ hwLog[k].index = f}

\* Level l is what the hardware of feature f of device i was last told.
LastWritten(i, f, l) ==
  /\ WritesTo(i, f) # {}
  /\ hwLog[CHOOSE k \in WritesTo(i, f) : \A m \in WritesTo(i, f) : m <= k].level = l

\* The step runs the handler on ScalarCmd future n for a declared feature.
RunsScalar(n) ==
  /\ n \in DOMAIN futs
  /\ futs[n].state = "pending"
  /\ futs'[n].state = "done"
  /\ futs[n].cmd.type = "ScalarCmd"
  /\ futs[n].cmd.index < FeatureCount(devices[futs[n].cmd.device_index])

SameLevelNotWritten ==
  \A n \in DOMAIN futs :
     (RunsScalar(n) /\ LastWritten(futs[n].cmd.device_index, futs[n].cmd.index, futs[n].cmd.level))
        => hwLog' = hwLog

NewLevelWrittenOnce ==
  \A n \in DOMAIN futs :
     (RunsScalar(n) /\ ~LastWritten(futs[n].cmd.device_index, futs[n].cmd.index, futs[n].cmd.level))
        => hwLog' = Append(hwLog, HwWrite(n, futs[n].cmd.device_index, futs[n].cmd.index,
                                          futs[n].cmd.level))

\* No feature is written the same level twice in a row.
NoRepeatedWrite ==
  \A a, b \in DOMAIN hwLog :
     (/\ a < b
      /\ hwLog[a].op = "write" /\ hwLog[b].op = "write"
      /\ hwLog[a].device_index = hwLog[b].device_index
      /\ hwLog[a].index = hwLog[b].index
      /\ \A m \in WritesTo(hwLog[a].device_index, hwLog[a].index) : ~(a < m /\ m < b))
        => hwLog[a].level # hwLog[b].level

\* C19: of two successive ScalarCmd with the same subcommand at most one is
\* written to the hardware, and a ScalarCmd whose level differs from the
\* level last sent to the feature is written exactly once.
C19_IdempotentWrites ==
  /\ [][SameLevelNotWritten /\ NewLevelWrittenOnce]_vars
  /\ []NoRepeatedWrite

\* Two equal commands for one feature have run and one write was made.
C19_Witness ==
  /\ Len(hwLog) = 1
  /\ Len(futs) = 2
  /\ futs[1].cmd.device_index = futs[2].cmd.device_index
  /\ futs[1].cmd.index = futs[2].cmd.index
  /\ futs[1].cmd.level = futs[2].cmd.level
  /\ futs[1].state = "done" /\ futs[2].state = "done"
  /\ futs[1].result.ok /\ futs[2].result.ok

(***************************************************************************)
(* Ping watchdog.  The handshake answers ServerInfo with the server's      *)
(* MaxPingTime; when it is positive a timer runs that every Ping restarts. *)
(* A timer that runs out stops all devices (stop_all_devices) and sends    *)
(* the client an Error with id 0 and ERROR_PING.                           *)
(***************************************************************************)
MaxPingTime == 3
PingTimes == 0..MaxPingTime

ServerInfo(k, t) == [type |-> "ServerInfo", id |-> k, max_ping_time |-> t]
PingError ==
  [type |-> "Error", id |-> 0, code |-> ErrorCode("Ping"),
   what |-> "PingTimeout", arg |-> "Ping"]

\* A ping timer that runs out whatever MaxPingTime is.
PingExpiredAtZero == handshook /\ sincePing >= maxPingTime

\* The ping timer has run its interval without a Ping.
PingExpired == handshook /\ maxPingTime > 0 /\ sincePing >= maxPingTime

PingFrame ==
  /\ log' = "none"
  /\ UNCHANGED builder
  /\ UNCHANGED <<devices, config, reserved, tasks, lastEvt, req, resp, delivered>>
  /\ UNCHANGED scanVars
  /\ UNCHANGED devVars
  /\ UNCHANGED msgVars

\* RequestServerInfo: the server answers ServerInfo and the timer starts.
Handshake(k) ==
  /\ ~handshook
  /\ handshook' = TRUE
  /\ sincePing' = 0
  /\ out' = <<ServerInfo(k, maxPingTime)>>
  /\ UNCHANGED <<maxPingTime, pingFired, stopFuts>>
  /\ PingFrame

\* Ping, sent within the interval: Ok, and the timer starts again.
ClientPing(k) ==
  /\ handshook
  /\ ~pingFired
  /\ ~PingExpired
  /\ sincePing' = 0
  /\ out' = <<[OkDefault EXCEPT !.id = k]>>
  /\ UNCHANGED <<maxPingTime, handshook, pingFired, stopFuts>>
  /\ PingFrame

\* One unit of time passes.  A timer that has run out fires before any
\* more time passes; the clock is not followed beyond MaxPingTime + 1.
Tick ==
  /\ handshook
  /\ pingFired \/ ~PingExpired
  /\ sincePing <= MaxPingTime
  /\ sincePing' = sincePing + 1
  /\ out' = <<>>
  /\ UNCHANGED <<maxPingTime, handshook, pingFired, stopFuts>>
  /\ PingFrame

\* The timer runs out: stop_all_devices builds a StopDeviceCmd future for
\* every device of the live map, and the client is sent the ping error.
PingTimeout ==
  /\ PingExpired
  /\ ~pingFired
  /\ pingFired' = TRUE
  /\ stopFuts' = [i \in DOMAIN devices |-> [cmd |-> StopDeviceCmdNew(1), done |-> FALSE]]
  /\ out' = <<PingError>>
  /\ UNCHANGED <<maxPingTime, handshook, sincePing>>
  /\ PingFrame

\* future::join_all drives the stop futures: one device has run its
\* StopDeviceCmd.
PingStopComplete(i) ==
  /\ pingFired
  /\ i \in DOMAIN stopFuts
  /\ ~stopFuts[i].done
  /\ stopFuts' = [stopFuts EXCEPT ![i].done = TRUE]
  /\ out' = <<>>
  /\ UNCHANGED pingVars
  /\ PingFrame

InitPing ==
  /\ devices \in LiveDevices \cup {<<>>}
  /\ config = {}
  /\ reserved = <<>>
  /\ tasks = [t \in Tasks |-> IdleTask]
  /\ out = <<>>
  /\ log = "none"
  /\ lastEvt = [i \in DOMAIN devices |-> "added"]
  /\ req = None
  /\ resp = None
  /\ stopFuts = <<>>
  /\ delivered = None
  /\ ScanInit /\ canScan = [g \in OtherManagers |-> FALSE]
  /\ DevInit
  /\ BuilderIdle
  /\ maxPingTime \in PingTimes
  /\ handshook = FALSE
  /\ sincePing = 0
  /\ pingFired = FALSE

NextPing ==
  \/ \E k \in Ids : Handshake(k)
  \/ \E k \in Ids : ClientPing(k)
  \/ Tick
  \/ PingTimeout
  \/ \E i \in DOMAIN devices : PingStopComplete(i)

SpecPing ==
  /\ InitPing
  /\ [][NextPing]_vars
  /\ WF_vars(PingTimeout)
  /\ \A i \in 1..MaxId : WF_vars(PingStopComplete(i))

\* The step that lets the timer run out.
PingFires == ~pingFired /\ pingFired'

\* Every live device has been handed a StopDeviceCmd.
StopReachesEveryDeviceNext ==
  /\ DOMAIN stopFuts' = DOMAIN devices
  /\ \A i \in DOMAIN devices : stopFuts'[i].cmd.type = "StopDeviceCmd"

\* The timer runs out only after a handshake that declared a positive
\* MaxPingTime and a full interval without a Ping; the step that lets it run
\* out hands every live device a StopDeviceCmd and sends the ping error.
TimeoutStopsAndReports ==
  PingFires =>
    /\ handshook /\ maxPingTime > 0 /\ sincePing >= maxPingTime
    /\ StopReachesEveryDeviceNext
    /\ out' = <<[type |-> "Error", id |-> 0, code |-> 2,
                 what |-> "PingTimeout", arg |-> "Ping"]>>

\* A full interval has gone by since the handshake or the last Ping.
IntervalMissed == handshook /\ maxPingTime > 0 /\ sincePing >= maxPingTime

\* Every device's StopDeviceCmd has run.
AllDevicesStopped ==
  /\ pingFired
  /\ DOMAIN stopFuts = DOMAIN devices
  /\ \A i \in DOMAIN devices : stopFuts[i].done

\* The ping error is sent by nothing but the timer running out.
PingErrorOnlyOnTimeout ==
  (\E n \in 1..Len(out') : out'[n].type = "Error" /\ out'[n].code = 2) => PingFires

\* C20: when the handshake declared MaxPingTime > 0 and a full interval goes
\* by without a Ping, the ping timer runs out: every live device is handed a
\* StopDeviceCmd, which then runs, and the client is sent an Error with id 0
\* and ErrorCode 2 (ERROR_PING); with MaxPingTime 0 the timer never runs
\* out, however much time passes.
C20_PingTimeout ==
  /\ [][TimeoutStopsAndReports /\ PingErrorOnlyOnTimeout]_vars
  /\ [](maxPingTime = 0 => ~pingFired)
  /\ IntervalMissed ~> AllDevicesStopped

\* The timer of a two-device server has run out and both devices have run
\* their StopDeviceCmd.
C20_Witness ==
  /\ pingFired
  /\ DOMAIN devices = {1, 2}
  /\ \A i \in DOMAIN devices : stopFuts[i].done

\* With MaxPingTime 0 time has gone by past every interval, unanswered.
C20_WitnessNoTimer ==
  /\ handshook
  /\ maxPingTime = 0
  /\ sincePing > MaxPingTime

(***************************************************************************)
(* Routing of client messages: parse_message over every kind of message a  *)
(* client may send, on a server that already has its devices.              *)
(***************************************************************************)
RouteDeviceTypes == {"VibrateCmd", "StopDeviceCmd"}
RouteManagerTypes == {"RequestDeviceList", "StopAllDevices", "StartScanning", "StopScanning"}
RouteOtherTypes == {"Ping"}

\* LovenseCmd is a device message (it names a device_index) that is in the
\* V0 and V1 unions and not in ButtplugDeviceCommandMessageUnion.
RouteMessages ==
  {DeviceMsg(ty, k, i) : ty \in RouteDeviceTypes \cup {"LovenseCmd"}, k \in Ids, i \in CmdIndices}
    \cup {PlainMsg(ty, k) : ty \in RouteManagerTypes \cup RouteOtherTypes, k \in Ids}

\* One device's stop future completes with an error; join_all keeps the
\* result in its vector, which stop_all_devices does not read.
StopFutFail(i) ==
  /\ req.type = "StopAllDevices"
  /\ resp = None
  /\ i \in DOMAIN stopFuts
  /\ ~stopFuts[i].done
  /\ stopFuts' = [stopFuts EXCEPT ![i] = [cmd |-> stopFuts[i].cmd, done |-> TRUE, failed |-> TRUE]]
  /\ UNCHANGED <<req, resp, delivered>>
  /\ DmQuiet

InitRoute ==
  /\ devices \in LiveDevices \cup {<<>>}
  /\ config = {}
  /\ reserved = <<>>
  /\ tasks = [t \in Tasks |-> IdleTask]
  /\ out = <<>>
  /\ log = "none"
  /\ lastEvt = [i \in DOMAIN devices |-> "added"]
  /\ req = None
  /\ resp = None
  /\ stopFuts = <<>>
  /\ delivered = None
  /\ ScanInit
  /\ PingIdle
  /\ BuilderIdle
  /\ canScan = [g \in OtherManagers |-> FALSE]
  /\ DevInit

NextRoute ==
  \/ \E msg \in RouteMessages : ParseMessage(msg)
  \/ DeviceCmdComplete
  \/ \E i \in DOMAIN stopFuts : StopFutComplete(i)
  \/ \E i \in DOMAIN stopFuts : StopFutFail(i)
  \/ StopAllAck
  \/ ScanCommandSend
  \/ LoopStartScanning
  \/ LoopStopScanning
  \/ \E i \in DOMAIN devices : DeviceDisconnect(i)

SpecRoute == InitRoute /\ [][NextRoute]_vars

\* C21: a LovenseCmd is always answered with a DeviceNotSupportedMessageType
\* error, whatever device index it names and whatever devices are connected.
C21_LovenseNotSupported ==
  (req.type = "LovenseCmd" /\ resp # None) =>
     /\ resp.type = "Error"
     /\ resp.what = "DeviceNotSupportedMessageType"

\* What does hold for a LovenseCmd: it is answered at once with the
\* UnexpectedMessageType message error and is handed to no device.
LovenseUnexpected ==
  req.type = "LovenseCmd" =>
     /\ resp = [type |-> "Error", id |-> req.id, code |-> 3,
                what |-> "UnexpectedMessageType", arg |-> "LovenseCmd"]
     /\ delivered = None
     /\ stopFuts = <<>>

(***************************************************************************)
(* RawReadCmd: its validation and its conversion to the DeviceReadCmd      *)
(* handed to the hardware.  The fields are u32; they are compared and      *)
(* copied, never computed with, so small values stand for all of them.     *)
(***************************************************************************)
MaxLength == 2
MaxTimeout == 2
Endpoints == {"Rx", "Tx"}
Lengths == 0..MaxLength
Timeouts == 0..MaxTimeout

\* A RawReadCmd as it is deserialized: any id, length and timeout.
RawReadCmdOf(k, i, endpoint, expected_length, timeout) ==
  [type |-> "RawReadCmd", id |-> k, device_index |-> i, endpoint |-> endpoint,
   expected_length |-> expected_length, timeout |-> timeout]

RawReadInputs ==
  {RawReadCmdOf(k, 1, e, l, t) : k \in 0..MaxId, e \in Endpoints, l \in Lengths, t \in Timeouts}

\* A validation that refuses a read of no byte.
RawReadCmd_is_valid_checks_length(cmd) ==
  IF cmd.expected_length = 0 THEN InvalidMessageContents([field |-> "expected_length"])
  ELSE is_not_system_id(cmd.id)

\* RawReadCmd::is_valid.
RawReadCmd_is_valid(cmd) == is_not_system_id(cmd.id)

\* DeviceReadCmd::new.
DeviceReadCmdNew(endpoint, length, timeout_ms) ==
  [endpoint |-> endpoint, length |-> length, timeout_ms |-> timeout_ms]

\* From<RawReadCmd> for DeviceReadCmd.
DeviceReadCmdFrom(msg) ==
  [endpoint |-> msg.endpoint, length |-> msg.expected_length, timeout_ms |-> msg.timeout]

MsgFrame ==
  /\ vmsg' = vmsg
  /\ Quiet
  /\ UNCHANGED dmRest
  /\ UNCHANGED scanVars
  /\ UNCHANGED devVars
  /\ UNCHANGED pingVars
  /\ UNCHANGED builder

ValidateRawRead ==
  /\ vmsg.type = "RawReadCmd"
  /\ vres = None
  /\ vres' = RawReadCmd_is_valid(vmsg)
  /\ vconv' = vconv
  /\ MsgFrame

ConvertRawRead ==
  /\ vmsg.type = "RawReadCmd"
  /\ vconv = None
  /\ vconv' = DeviceReadCmdFrom(vmsg)
  /\ vres' = vres
  /\ MsgFrame

InitRawRead ==
  /\ DmInit
  /\ config = {}
  /\ ScanInit
  /\ PingIdle
  /\ BuilderIdle
  /\ canScan = [g \in OtherManagers |-> FALSE]
  /\ futs = <<>>
  /\ hwLog = <<>>
  /\ cache = <<>>
  /\ allowRaw = FALSE
  /\ vmsg \in RawReadInputs
  /\ vres = None /\ vconv = None

NextRawRead == ValidateRawRead \/ ConvertRawRead

SpecRawRead == InitRawRead /\ [][NextRawRead]_vars

Converted == vconv # None

\* C22: RawReadCmd::is_valid fails exactly when the id is 0, whatever
\* expected_length (0 included) and timeout are; the DeviceReadCmd made of a
\* RawReadCmd has its endpoint, its expected_length as length and its timeout
\* as timeout_ms.
C22_RawReadValidity ==
  /\ Validated => (vres.ok <=> vmsg.id # 0)
  /\ Validated /\ ~vres.ok => vres.what = "InvalidMessageContents"
  /\ Converted =>
       /\ vconv.endpoint = vmsg.endpoint
       /\ vconv.length = vmsg.expected_length
       /\ vconv.timeout_ms = vmsg.timeout

\* A read of no byte with a timeout was found valid and converted.
C22_Witness ==
  /\ Validated /\ vres.ok
  /\ Converted
  /\ vmsg.expected_length = 0
  /\ vmsg.timeout = 1
  /\ vconv.length = 0

(***************************************************************************)
(* Up-conversion of VibrateCmd: From<VibrateCmd> for ScalarCmd.            *)
(***************************************************************************)
\* ScalarSubcommand::new with its actuator type.
ScalarSubcommandNew(index, scalar, actuator_type) ==
  [index |-> index, scalar |-> scalar, actuator_type |-> actuator_type]

\* VibrateSubcommand: a feature index and a speed.
VibrateSubcommand(index, speed) == [index |-> index, speed |-> speed]

SpeedLists ==
  UNION {[1..n -> {VibrateSubcommand(i, x) : i \in FeatureIndices, x \in F64Values}] : n \in 0..MaxSubs}

\* A VibrateCmd as it is deserialized: any id, device index and speeds.
VibrateCmdInputs ==
  {[type |-> "VibrateCmd", id |-> k, device_index |-> i, speeds |-> l] :
     k \in 0..MaxId, i \in CmdIndices, l \in SpeedLists}

\* A conversion that builds the command with ScalarCmd::new, whose id is 1.
ScalarCmdFromNewId(vibrate_cmd) ==
  [type |-> "ScalarCmd", id |-> 1, device_index |-> vibrate_cmd.device_index,
   scalars |-> [n \in 1..Len(vibrate_cmd.speeds) |->
                  ScalarSubcommandNew(vibrate_cmd.speeds[n].index,
                                      vibrate_cmd.speeds[n].speed, "Vibrate")]]

\* From<VibrateCmd> for ScalarCmd: the speeds are mapped in order.
ScalarCmdFrom(vibrate_cmd) ==
  [type |-> "ScalarCmd", id |-> vibrate_cmd.id, device_index |-> vibrate_cmd.device_index,
   scalars |-> [n \in 1..Len(vibrate_cmd.speeds) |->
                  ScalarSubcommandNew(vibrate_cmd.speeds[n].index,
                                      vibrate_cmd.speeds[n].speed, "Vibrate")]]

ConvertVibrate ==
  /\ vmsg.type = "VibrateCmd"
  /\ vconv = None
  /\ vconv' = ScalarCmdFrom(vmsg)
  /\ vres' = vres
  /\ MsgFrame

InitConvert ==
  /\ DmInit
  /\ config = {}
  /\ ScanInit
  /\ PingIdle
  /\ BuilderIdle
  /\ canScan = [g \in OtherManagers |-> FALSE]
  /\ futs = <<>>
  /\ hwLog = <<>>
  /\ cache = <<>>
  /\ allowRaw = FALSE
  /\ vmsg \in VibrateCmdInputs
  /\ vres = None /\ vconv = None

NextConvert == ConvertVibrate

SpecConvert == InitConvert /\ [][NextConvert]_vars

\* C23: the ScalarCmd made of a VibrateCmd has the VibrateCmd's id and
\* device_index and one scalar subcommand per speed subcommand, in the same
\* order, with the same index, the speed as scalar and actuator type Vibrate;
\* no speed gives no scalar.
C23_VibrateToScalar ==
  (vmsg.type = "VibrateCmd" /\ Converted) =>
     /\ vconv.type = "ScalarCmd"
     /\ vconv.id = vmsg.id
     /\ vconv.device_index = vmsg.device_index
     /\ Len(vconv.scalars) = Len(vmsg.speeds)
     /\ \A n \in 1..Len(vmsg.speeds) :
          /\ vconv.scalars[n].index = vmsg.speeds[n].index
          /\ vconv.scalars[n].scalar = vmsg.speeds[n].speed
          /\ vconv.scalars[n].actuator_type = "Vibrate"
     /\ vmsg.speeds = <<>> => vconv.scalars = <<>>

\* A VibrateCmd of two different speeds with an id other than 1 was converted.
C23_Witness ==
  /\ vmsg.type = "VibrateCmd"
  /\ Converted
  /\ vmsg.id = 2
  /\ Len(vmsg.speeds) = 2
  /\ vmsg.speeds[1] # vmsg.speeds[2]
  /\ vconv.scalars[2].scalar = vmsg.speeds[2].speed

(***************************************************************************)
(* The per-version message unions.                                         *)
(***************************************************************************)
\* ButtplugMessageSpecVersion0.
ButtplugMessageSpecVersion0 ==
  {"Ok", "Error", "Log", "RequestLog", "Ping", "Test", "RequestServerInfo",
   "ServerInfo", "RequestDeviceList", "DeviceList", "DeviceAdded",
   "DeviceRemoved", "StartScanning", "StopScanning", "ScanningFinished",
   "SingleMotorVibrateCmd", "FleshlightLaunchFW12Cmd", "LovenseCmd",
   "KiirooCmd", "VorzeA10CycloneCmd", "StopDeviceCmd", "StopAllDevices"}

\* ButtplugMessageUnionVersion1.
ButtplugMessageUnionVersion1 ==
  {"Ok", "Error", "Ping", "Test", "RequestLog", "Log", "RequestServerInfo",
   "ServerInfo", "DeviceList", "DeviceAdded", "DeviceRemoved", "StartScanning",
   "StopScanning", "ScanningFinished", "RequestDeviceList", "StopAllDevices",
   "VibrateCmd", "LinearCmd", "RotateCmd", "FleshlightLaunchFW12Cmd",
   "LovenseCmd", "KiirooCmd", "VorzeA10CycloneCmd", "SingleMotorVibrateCmd",
   "StopDeviceCmd"}

\* A version 2 union that still has the deprecated commands.
ButtplugMessageUnionVersion2KeepsDeprecated ==
  {"Ok", "Error", "Ping", "Test", "RequestLog", "Log", "RequestServerInfo",
   "ServerInfo", "DeviceList", "DeviceAdded", "DeviceRemoved", "StartScanning",
   "StopScanning", "ScanningFinished", "RequestDeviceList", "StopAllDevices",
   "VibrateCmd", "LinearCmd", "RotateCmd", "RawWriteCmd", "RawReadCmd",
   "StopDeviceCmd", "RawReading", "SubscribeCmd", "UnsubscribeCmd",
   "LovenseCmd", "KiirooCmd"}

\* ButtplugMessageUnionVersion2.
ButtplugMessageUnionVersion2 ==
  {"Ok", "Error", "Ping", "Test", "RequestLog", "Log", "RequestServerInfo",
   "ServerInfo", "DeviceList", "DeviceAdded", "DeviceRemoved", "StartScanning",
   "StopScanning", "ScanningFinished", "RequestDeviceList", "StopAllDevices",
   "VibrateCmd", "LinearCmd", "RotateCmd", "RawWriteCmd", "RawReadCmd",
   "StopDeviceCmd", "RawReading", "SubscribeCmd", "UnsubscribeCmd"}

\* ButtplugMessageUnion: every message there is.
ButtplugMessageUnion ==
  {"Ok", "Error", "Ping", "Test", "RequestLog", "Log", "RequestServerInfo",
   "ServerInfo", "DeviceList", "DeviceAdded", "DeviceRemoved", "StartScanning",
   "StopScanning", "ScanningFinished", "RequestDeviceList", "StopAllDevices",
   "VibrateCmd", "LinearCmd", "RotateCmd", "RawWriteCmd", "RawReadCmd",
   "StopDeviceCmd", "RawReading", "SubscribeCmd", "UnsubscribeCmd",
   "SingleMotorVibrateCmd", "FleshlightLaunchFW12Cmd", "LovenseCmd",
   "KiirooCmd", "VorzeA10CycloneCmd"}

\* ButtplugDeviceMessageType: the messages that name a device.
ButtplugDeviceMessageType ==
  {"VibrateCmd", "LinearCmd", "RotateCmd", "RawWriteCmd", "RawReadCmd",
   "StopDeviceCmd", "SubscribeCmd", "UnsubscribeCmd", "SingleMotorVibrateCmd",
   "FleshlightLaunchFW12Cmd", "LovenseCmd", "KiirooCmd", "VorzeA10CycloneCmd"}

MessageVersions == {0, 1, 2}

UnionOfVersion(v) ==
  CASE v = 0 -> ButtplugMessageSpecVersion0
    [] v = 1 -> ButtplugMessageUnionVersion1
    [] v = 2 -> ButtplugMessageUnionVersion2

\* Whether the message is a variant of the union of version v (a message
\* that is not cannot be read or written at that version).
CheckVersion(v) ==
  /\ vmsg.type \in ButtplugMessageUnion
  /\ vres = None
  /\ v \notin DOMAIN vconv
  /\ vconv' = (v :> (vmsg.type \in UnionOfVersion(v))) @@ vconv
  /\ vres' = vres
  /\ MsgFrame

InitVersions ==
  /\ DmInit
  /\ config = {}
  /\ ScanInit
  /\ PingIdle
  /\ BuilderIdle
  /\ canScan = [g \in OtherManagers |-> FALSE]
  /\ futs = <<>>
  /\ hwLog = <<>>
  /\ cache = <<>>
  /\ allowRaw = FALSE
  /\ vmsg \in {[type |-> ty] : ty \in ButtplugMessageUnion}
  /\ vres = None /\ vconv = <<>>

NextVersions == \E v \in MessageVersions : CheckVersion(v)

SpecUnions == InitVersions /\ [][NextVersions]_vars

Known(v) == v \in DOMAIN vconv

\* C24: a message is in the version 1 union exactly when it is in the
\* version 0 union or is VibrateCmd, LinearCmd or RotateCmd (none of which is
\* in version 0); the version 2 union has none of FleshlightLaunchFW12Cmd,
\* LovenseCmd, KiirooCmd and VorzeA10CycloneCmd, has RawReadCmd, RawWriteCmd
\* and SubscribeCmd, which version 1 has not, and has every version 0 message
\* that names no device.
C24_VersionUnions ==
  /\ (Known(0) /\ Known(1)) =>
       /\ vconv[1] <=> (vconv[0] \/ vmsg.type \in {"VibrateCmd", "LinearCmd", "RotateCmd"})
       /\ vmsg.type \in {"VibrateCmd", "LinearCmd", "RotateCmd"} => ~vconv[0]
  /\ (Known(2) /\ vmsg.type \in {"FleshlightLaunchFW12Cmd", "LovenseCmd", "KiirooCmd",
                                  "VorzeA10CycloneCmd"}) => ~vconv[2]
  /\ (Known(2) /\ vmsg.type \in {"RawReadCmd", "RawWriteCmd", "SubscribeCmd"}) => vconv[2]
  /\ (Known(1) /\ vmsg.type \in {"RawReadCmd", "RawWriteCmd", "SubscribeCmd"}) => ~vconv[1]
  /\ (Known(0) /\ Known(2) /\ vconv[0] /\ vmsg.type \notin ButtplugDeviceMessageType) => vconv[2]

\* LovenseCmd was looked up in all three unions: in 0 and 1, not in 2.
C24_Witness ==
  /\ vmsg.type = "LovenseCmd"
  /\ Known(0) /\ Known(1) /\ Known(2)
  /\ vconv[0] /\ vconv[1] /\ ~vconv[2]

(***************************************************************************)
(* Properties of try_create_device.                                        *)
(***************************************************************************)
IsPrefix(a, b) == Len(a) <= Len(b) /\ \A k \in 1..Len(a) : a[k] = b[k]

\* The stages a task has passed are the first stages of the pipeline, in
\* its order, and the task stands at the last one it passed.
StagesInOrder ==
  \A t \in Tasks :
    /\ IsPrefix(tasks[t].passed, AllStages)
    /\ tasks[t].passed # <<>> => tasks[t].stage = tasks[t].passed[Len(tasks[t].passed)]

\* Nothing is connected to without a matching protocol builder.
ConnectNeedsMatch ==
  \A t \in Tasks :
    tasks[t].stage \notin {"Idle", "Advertised"} =>
      /\ tasks[t].hw.protocol # <<>>
      /\ tasks[t].passed[1] = "Matched"

\* A device is returned only after match, connect and initialization.
DeviceNeedsAllStages ==
  \A t \in Tasks : tasks[t].stage = "Ready" => tasks[t].passed = AllStages

\* The step in which a task returns without a device.
ReturnsNoDevice(t) ==
  tasks[t].stage \notin {"Idle", "Ready"} /\ tasks'[t].stage = "Idle" /\ log' # "cancelled"

\* Without a matching builder the task returns Ok(None) from the lookup; a
\* failed connect returns its error before any protocol initialization.
EarlyReturns ==
  \A t \in Tasks :
    /\ (tasks[t].stage = "Advertised" /\ tasks[t].hw.protocol = <<>> /\ tasks'[t] # tasks[t]) =>
         (ReturnsNoDevice(t) /\ log' = "no protocol" /\ tasks[t].passed = <<>>)
    /\ (tasks[t].stage = "Matched" /\ ReturnsNoDevice(t)) =>
         (log' = "dropped" /\ tasks[t].passed = <<"Matched">>)
    /\ (ReturnsNoDevice(t) /\ log' = "no protocol") => tasks[t].stage = "Advertised"

\* C25: try_create_device runs specifier match, then hardware connect, then
\* protocol initialization: with no matching protocol builder it returns
\* Ok(None) and connects to nothing, with a failed connect it returns the
\* error and initializes nothing, and a device is returned only after all
\* three.
C25_CreateOrder ==
  /\ [](StagesInOrder /\ ConnectNeedsMatch /\ DeviceNeedsAllStages)
  /\ [][EarlyReturns]_vars

\* A discovery of hardware no protocol matches has just returned Ok(None).
C25_Witness == log = "no protocol" /\ \A t \in Tasks : tasks[t].stage = "Idle"

\* A discovery has just failed to connect.
C25_WitnessConnect ==
  log = "dropped" /\ \A t \in Tasks : tasks[t].stage = "Idle"

(***************************************************************************)
(* Properties of the routing of client messages.                           *)
(***************************************************************************)
\* The step is parse_message taking a message of the client.
ParseStep ==
  /\ ClientReady
  /\ <<req', resp', delivered', stopFuts'>> # <<req, resp, delivered, stopFuts>>

IsDeviceCommand(ty) ==
  ty \in {"FleshlightLaunchFW12Cmd", "SingleMotorVibrateCmd", "VorzeA10CycloneCmd",
          "KiirooCmd", "VibrateCmd", "LinearCmd", "RotateCmd", "RawWriteCmd",
          "RawReadCmd", "StopDeviceCmd", "SubscribeCmd", "UnsubscribeCmd"}

IsManagerMessage(ty) ==
  ty \in {"RequestDeviceList", "StopAllDevices", "StartScanning", "StopScanning"}

\* A device command goes to the device at its index and to no other; with
\* no device there it is refused.
DeviceCommandRouted ==
  (ParseStep /\ IsDeviceCommand(req'.type)) =>
     /\ stopFuts' = <<>>
     /\ IF req'.device_index \in DOMAIN devices
          THEN delivered' = [index |-> req'.device_index, msg |-> req'] /\ resp' = None
          ELSE delivered' = None /\ IsNotAvailable(resp', req'.device_index)

\* The four manager messages are handled by the manager itself.
ManagerMessageHandled ==
  (ParseStep /\ IsManagerMessage(req'.type)) =>
     /\ delivered' = None
     /\ CASE req'.type = "RequestDeviceList" -> resp'.type = "DeviceList" /\ stopFuts' = <<>>
          [] req'.type = "StopAllDevices" -> resp' = None /\ DOMAIN stopFuts' = DOMAIN devices
          [] OTHER -> resp' = None /\ stopFuts' = <<>>

\* Every other message is refused as unexpected.
OtherMessageRefused ==
  (ParseStep /\ ~IsDeviceCommand(req'.type) /\ ~IsManagerMessage(req'.type)) =>
     /\ delivered' = None
     /\ stopFuts' = <<>>
     /\ resp' = [type |-> "Error", id |-> req'.id, code |-> 3,
                 what |-> "UnexpectedMessageType", arg |-> req'.type]

\* parse_message with its two checks in the other order.
ParseMessageManagerFirst(msg) ==
  /\ ClientReady
  /\ IF msg.type \in ManagerTypes
       THEN CASE msg.type = "RequestDeviceList" -> RequestDeviceList(msg)
              [] msg.type = "StopAllDevices" -> StopAllBegin(msg)
              [] OTHER -> ScanRequest(msg)
     ELSE IF msg.type \in DeviceCommandTypes THEN ParseDeviceMessage(msg)
     ELSE UnexpectedMessage(msg)

\* Whatever parse_message does with a message, it would do with the checks
\* in the other order.
OrderOfChecksIrrelevant == ParseStep => ParseMessageManagerFirst(req')

\* C26: parse_message gives every client message exactly one of three
\* outcomes: a device command goes to the one device at its device_index (or
\* is refused when there is none), the four manager messages are handled by
\* the manager, and every other message gets the UnexpectedMessageType
\* error; no message is both a device command and a manager message, so the
\* order of the two checks does not matter.
C26_Classification ==
  /\ [][DeviceCommandRouted /\ ManagerMessageHandled /\ OtherMessageRefused]_vars
  /\ [][OrderOfChecksIrrelevant]_vars
  /\ [](DeviceCommandTypes \cap ManagerTypes = {})

\* A Ping was refused as unexpected on a server with two devices.
C26_Witness ==
  /\ req.type = "Ping"
  /\ resp.type = "Error"
  /\ resp.what = "UnexpectedMessageType"
  /\ Cardinality(DOMAIN devices) = 2

\* A command was handed to the device at index 2 of a two-device server.
C26_WitnessRouted ==
  /\ delivered # None
  /\ delivered.index = 2
  /\ req.type = "VibrateCmd"
  /\ Cardinality(DOMAIN devices) = 2

\* A client command handed to a device names the index of that device.
ClientCommandIndexMatches ==
  delivered # None => delivered.msg.device_index = delivered.index

\* C27: every device command handed to a device carries the index under
\* which the device is registered, the client's commands routed by
\* parse_device_message and the StopDeviceCmd of stop_all_devices alike.
C27_DeliveredIndexMatches ==
  /\ ClientCommandIndexMatches
  /\ \A i \in DOMAIN stopFuts : stopFuts[i].cmd.device_index = i

(***************************************************************************)
(* Properties of one run of the serial-port manager's scan.                *)
(***************************************************************************)
SerialMoves == serial' # serial /\ serial' # SerialStarted

\* After the enumeration the ports are reported, or, when there is none or
\* the enumeration failed, ScanningFinished is sent.
AfterEnumeration ==
  (SerialMoves /\ serial.pc = "enumerate") =>
     /\ serial'.pc = IF serial'.ports = <<>> THEN "sendFinished" ELSE "sendFound"
     /\ evChan' = evChan

\* Each send of DeviceFound is for the next port not yet reported: it
\* queues that port's event, or waits for room, or fails and ends the loop.
OneFoundPerPort ==
  (SerialMoves /\ serial.pc \in {"sendFound", "waitFound"}) =>
     \/ /\ evChan' = Append(evChan, FoundEvent(Head(serial.ports)))
        /\ serial'.ports = Tail(serial.ports)
        /\ serial'.pc = IF Tail(serial.ports) = <<>> THEN "sendFinished" ELSE "sendFound"
        /\ ~serial'.failed
     \/ /\ evChan' = evChan
        /\ serial'.ports = serial.ports
        /\ serial'.pc = "waitFound"
     \/ /\ evChan' = evChan
        /\ serial'.failed
        /\ serial'.pc = "sendFinished"

\* The scan sends ScanningFinished once, as its last step, and returns Ok
\* whatever the send said.
FinishedOnceAtTheEnd ==
  /\ (SerialMoves /\ serial'.pc = "done") =>
        /\ serial.pc \in {"sendFinished", "waitFinished"}
        /\ serial'.result = "Ok"
        /\ \/ evChan' = Append(evChan, FinishedEvent)
           \/ ~loopAlive /\ evChan' = evChan
  /\ (SerialMoves /\ serial.pc \in {"sendFinished", "waitFinished"}) =>
        \/ serial'.pc = "done"
        \/ serial'.pc = "waitFinished" /\ evChan' = evChan
  /\ (serial' # serial /\ serial.pc = "done") => serial' = SerialStarted

\* ScanningFinished comes after every DeviceFound of the run: when it is
\* sent every port has been reported, unless a send failed.
FinishedAfterAllFound ==
  serial.pc \in {"sendFinished", "waitFinished", "done"} =>
     (serial.ports = <<>> \/ serial.failed)

ScanResultOk == serial.pc = "done" <=> serial.result = "Ok"

\* C28: a run of the serial-port manager's start_scanning sends a
\* DeviceFound for each port in turn, then ScanningFinished exactly once and
\* after all its DeviceFound events; ScanningFinished is sent as well when
\* the enumeration fails or finds no port and after a send of DeviceFound
\* failed, and the scan ends with Ok in every case.
C28_SerialScanRun ==
  /\ [][AfterEnumeration /\ OneFoundPerPort /\ FinishedOnceAtTheEnd]_vars
  /\ [](FinishedAfterAllFound /\ ScanResultOk)

\* A run reported every port it found and then ScanningFinished, the last
\* event in the channel.
C28_Witness ==
  /\ serial.pc = "done"
  /\ ~serial.failed
  /\ serial.attempts = MaxPorts
  /\ evChan # <<>>
  /\ evChan[Len(evChan)] = FinishedEvent

(***************************************************************************)
(* Properties of RequestDeviceList.                                        *)
(***************************************************************************)
EntryIndices(list) == {e.index : e \in list.entries}

\* The answer to RequestDeviceList lists the live map as it is when the
\* request is handled: one entry per key, each describing the device there.
ListsTheLiveMap ==
  (ParseStep /\ req'.type = "RequestDeviceList") =>
     /\ resp'.type = "DeviceList"
     /\ resp'.id = req'.id
     /\ EntryIndices(resp') = DOMAIN devices
     /\ Cardinality(resp'.entries) = Cardinality(DOMAIN devices)
     /\ \A e \in resp'.entries : e.identifier = devices[e.index].device_identifier
     /\ \A i \in DOMAIN lastEvt : lastEvt[i] = "removed" => i \notin EntryIndices(resp')

\* C29: the response to RequestDeviceList is a DeviceList with the id of the
\* request and exactly one entry per device of the live map at that moment,
\* under the device's map key; removed and never registered devices are not
\* in it.
C29_DeviceListIsLiveMap == [][ListsTheLiveMap]_vars

\* A list was given that holds the device at index 2 alone, the device at
\* index 1 having been removed.
C29_Witness ==
  /\ req.type = "RequestDeviceList"
  /\ resp.type = "DeviceList"
  /\ EntryIndices(resp) = {2}
  /\ 1 \in DOMAIN lastEvt /\ lastEvt[1] = "removed"

(***************************************************************************)
(* Properties of StopAllDevices with failing devices.                      *)
(***************************************************************************)
StopFailed(i) == i \in DOMAIN stopFuts /\ "failed" \in DOMAIN stopFuts[i]

\* StopAllDevices is answered with Ok, whatever the stops returned.
StopAllAlwaysOk ==
  (req.type = "StopAllDevices" /\ resp # None) =>
     /\ resp = [type |-> "Ok", id |-> req.id]
     /\ \A i \in DOMAIN stopFuts : stopFuts[i].done

\* The stop is sent to every device of the live map before any stop runs.
StopSentBeforeAnyRuns ==
  (ParseStep /\ req'.type = "StopAllDevices") =>
     /\ DOMAIN stopFuts' = DOMAIN devices
     /\ \A i \in DOMAIN devices : stopFuts'[i].cmd.type = "StopDeviceCmd" /\ ~stopFuts'[i].done

\* A stop that fails leaves the stops of the other devices as they are.
FailureLeavesOthers ==
  \A i \in DOMAIN stopFuts' :
    (i \in DOMAIN stopFuts /\ ~StopFailed(i) /\ "failed" \in DOMAIN stopFuts'[i]) =>
       /\ DOMAIN stopFuts' = DOMAIN stopFuts
       /\ \A j \in DOMAIN stopFuts \ {i} : stopFuts'[j] = stopFuts[j]
       /\ resp' = None

\* While the request is not answered, a stop not yet done can be done or, all
\* being done, the Ok can be given: no failure blocks the request.
StopNotBlocked ==
  (req.type = "StopAllDevices" /\ resp = None) =>
     ENABLED (StopAllAck \/ \E i \in DOMAIN stopFuts : StopFutComplete(i))

\* C30: StopAllDevices is acknowledged with Ok even when the StopDeviceCmd of
\* one or more devices ends with an error; a failing device does not keep the
\* stop from the other devices and does not turn the reply into an Error.
C30_StopAllIgnoresFailures ==
  /\ []StopAllAlwaysOk
  /\ [][StopSentBeforeAnyRuns /\ FailureLeavesOthers]_vars
  /\ []StopNotBlocked

\* StopAllDevices was acknowledged with Ok on a two-device server, the stop
\* of the first device having failed and that of the second succeeded.
C30_Witness ==
  /\ req.type = "StopAllDevices"
  /\ resp.type = "Ok"
  /\ DOMAIN stopFuts = {1, 2}
  /\ StopFailed(1)
  /\ ~StopFailed(2)

(***************************************************************************)
(* Properties of the acknowledgement of StartScanning and StopScanning.    *)
(***************************************************************************)
ScanPending == req.type \in {"StartScanning", "StopScanning"} /\ resp = None

\* The step that answers a scan request: Ok with the request's id; the
\* command is queued for the event loop when the loop is there and dropped
\* when it is gone; no manager's scan is touched.
ScanAckStep ==
  (ScanPending /\ resp' # None) =>
     /\ resp' = [type |-> "Ok", id |-> req.id]
     /\ cmdChan' = IF loopAlive THEN Append(cmdChan, req.type) ELSE cmdChan
     /\ UNCHANGED <<serial, gen, scanningInProgress, pendingScans, evChan>>
     /\ out' = <<>>

\* A scan request is never answered with an Error.
ScanAckIsOk ==
  (req.type \in {"StartScanning", "StopScanning"} /\ resp # None) => resp.type = "Ok"

\* The answer waits for room in the command channel and for nothing else:
\* not for the event loop to take the command, not for any scan.
ScanAckWaitsForNoScan ==
  (ScanPending /\ (~loopAlive \/ Len(cmdChan) < CmdChanCap)) => ENABLED ScanCommandSend

\* C31: StartScanning and StopScanning are acknowledged with Ok once the
\* command is in the event loop's command channel, and also when the event
\* loop is gone and the command goes nowhere; the acknowledgement does not
\* wait for the managers' scans and says nothing of how they end.
C31_ScanAck ==
  /\ [][ScanAckStep]_vars
  /\ [](ScanAckIsOk /\ ScanAckWaitsForNoScan)

\* A StartScanning was acknowledged with Ok after the event loop had gone.
C31_Witness ==
  /\ req.type = "StartScanning"
  /\ resp.type = "Ok"
  /\ ~loopAlive
  /\ cmdChan = <<>>

\* A StartScanning was acknowledged while the serial-port scan of an earlier
\* request was still sending.
C31_WitnessScanRuns ==
  /\ req.type = "StartScanning"
  /\ resp.type = "Ok"
  /\ serial.pc \in {"sendFound", "waitFound"}


(***************************************************************************)
(* ServerDeviceManagerBuilder::finish.                                     *)
(***************************************************************************)
MaxManagers == 3

\* name() of the communication managers a client can register.
ManagerNames == {"SerialPortCommunicationManager", "BtlePlugCommunicationManager",
                 "LovenseHIDDongleCommunicationManager"}

\* Only the manager pushed last is compared.
AlreadyAddedLastOnly(comm_managers, comm_mgr) ==
  comm_managers # <<>> /\ comm_managers[Len(comm_managers)] = comm_mgr

\* comm_managers.iter().any(|mgr| mgr.name() == comm_mgr.name())
AlreadyAdded(comm_managers, comm_mgr) ==
  \E i \in DOMAIN comm_managers : comm_managers[i] = comm_mgr

\* The loop of finish over self.comm_managers: each builder is finished and
\* its manager pushed, unless a manager of that name was pushed before.
RECURSIVE FinishLoop(_, _)
FinishLoop(builders, comm_managers) ==
  IF builders = <<>> THEN [ok |-> TRUE, comm_managers |-> comm_managers]
  ELSE LET comm_mgr == Head(builders)
       IN IF AlreadyAdded(comm_managers, comm_mgr)
          THEN [ok |-> FALSE, what |-> "DeviceManagerTypeAlreadyAdded", arg |-> comm_mgr]
          ELSE FinishLoop(Tail(builders), Append(comm_managers, comm_mgr))

BuilderFrame ==
  /\ Quiet
  /\ UNCHANGED dmRest
  /\ UNCHANGED scanVars
  /\ UNCHANGED devVars
  /\ UNCHANGED msgVars
  /\ UNCHANGED pingVars

\* ServerDeviceManagerBuilder::comm_manager.
comm_manager(n) ==
  /\ builder.result = None
  /\ Len(builder.comm_managers) < MaxManagers
  /\ builder' = [builder EXCEPT !.comm_managers = Append(@, n)]
  /\ BuilderFrame

\* ServerDeviceManagerBuilder::finish. The configuration manager builder is
\* finished first and its error returned; then the loop over the
\* communication managers; the event loop is spawned after both.
Finish ==
  /\ builder.result = None
  /\ LET looped == FinishLoop(builder.comm_managers, <<>>)
     IN builder' =
          IF ~builder.config_ok
          THEN [builder EXCEPT !.result =
                  [ok |-> FALSE, what |-> "DeviceConfigurationManagerError", arg |-> "config"]]
          ELSE IF ~looped.ok
          THEN [builder EXCEPT !.result = looped]
          ELSE [builder EXCEPT !.result = looped, !.loops = @ + 1]
  /\ BuilderFrame

\* A builder with nothing registered; whether its configuration builds is
\* fixed by the configuration it was given.
InitBuilder ==
  /\ DmInit
  /\ ScanInit /\ canScan = [g \in OtherManagers |-> FALSE]
  /\ PingIdle
  /\ DevInit
  /\ builder \in [comm_managers : {<<>>}, config_ok : BOOLEAN, result : {None}, loops : {0}]

NextBuilder ==
  \/ \E n \in ManagerNames : comm_manager(n)
  \/ Finish

SpecBuilder == InitBuilder /\ [][NextBuilder]_vars

Finished == builder.result # None

\* Two registered communication managers have the same name.
SameNameTwice ==
  \E i, j \in DOMAIN builder.comm_managers :
     i < j /\ builder.comm_managers[i] = builder.comm_managers[j]

\* The name of the first registered manager that repeats an earlier one.
FirstRepeated ==
  LET reg == builder.comm_managers
      rep == {j \in DOMAIN reg : \E i \in 1..(j - 1) : reg[i] = reg[j]}
  IN reg[CHOOSE j \in rep : \A k \in rep : j <= k]

DuplicateRefused ==
  (Finished /\ SameNameTwice) =>
     /\ ~builder.result.ok
     /\ builder.result.what = "DeviceManagerTypeAlreadyAdded"
     /\ builder.result.arg = FirstRepeated
     /\ builder.loops = 0

DistinctSpawnsOne ==
  (Finished /\ ~SameNameTwice) =>
     /\ builder.result.ok
     /\ builder.result.comm_managers = builder.comm_managers
     /\ builder.loops = 1

ConfigurationRefused ==
  (Finished /\ ~builder.config_ok) =>
     /\ ~builder.result.ok
     /\ builder.result.what = "DeviceConfigurationManagerError"
     /\ builder.loops = 0

\* A loop is spawned exactly when a device manager is returned.
LoopIffManager == builder.loops = IF Finished /\ builder.result.ok THEN 1 ELSE 0

\* C32 (as stated): finish fails with DeviceManagerTypeAlreadyAdded naming
\* the manager whenever two registered communication managers have the same
\* name, spawning no event loop and returning no device manager; with
\* pairwise distinct names it spawns exactly one event loop.
C32_AsStated == DuplicateRefused /\ DistinctSpawnsOne

\* C32: when the configuration manager builds, finish fails with
\* DeviceManagerTypeAlreadyAdded naming the first repeated manager if two
\* registered communication managers have the same name, spawning no event
\* loop and returning no device manager, and spawns exactly one event loop
\* if the names are pairwise distinct; when the configuration manager does
\* not build, finish fails with DeviceConfigurationManagerError and spawns
\* no event loop, whatever is registered.
C32_FinishDuplicateNames ==
  /\ builder.config_ok => (DuplicateRefused /\ DistinctSpawnsOne)
  /\ ConfigurationRefused
  /\ LoopIffManager

C32_Witness ==
  /\ Finished /\ builder.config_ok /\ SameNameTwice
  /\ Len(builder.comm_managers) = 3
  /\ builder.comm_managers[1] = builder.comm_managers[3]
  /\ builder.comm_managers[1] # builder.comm_managers[2]
  /\ builder.result.what = "DeviceManagerTypeAlreadyAdded"
  /\ builder.loops = 0

C32_WitnessDistinct ==
  /\ Finished /\ builder.config_ok /\ ~SameNameTwice
  /\ Len(builder.comm_managers) = 3
  /\ builder.loops = 1


(***************************************************************************)
(* ButtplugMessageUnion::try_deserialize and as_protocol_json.             *)
(***************************************************************************)
MaxArray == 2

\* A text is not JSON at all, a JSON value that is no array, or an array.
\* An array item is written as the one key of its object and the Id under
\* it (serde's externally tagged form of an enum: {"Ok":{"Id":1}}).
JsonKeys == {"Ok", "Ping", "StartScanning", "NoSuchMessage"}
JsonItems == [key : JsonKeys, Id : 0..MaxId]
JsonArrays == UNION {[1..n -> JsonItems] : n \in 0..MaxArray}
JsonTexts ==
  {[json |-> "invalid", items |-> <<>>], [json |-> "object", items |-> <<>>]}
    \cup {[json |-> "array", items |-> a] : a \in JsonArrays}

\* The messages a caller may serialize.
UnionMessages == [type : JsonKeys \cap ButtplugMessageUnion, id : 0..MaxId]

\* Serialize for ButtplugMessageUnion: the variant's name as key, the Id field.
SerializeMessage(m) == [key |-> m.type, Id |-> m.id]

\* Deserialize for ButtplugMessageUnion: the key must be a variant's name.
ItemIsMessage(item) == item.key \in ButtplugMessageUnion
DeserializeMessage(item) == [type |-> item.key, id |-> item.Id]

\* ButtplugMessage::as_protocol_json: serde_json::to_string(&[&self]).
as_protocol_json(m) == [json |-> "array", items |-> <<SerializeMessage(m)>>]

\* serde_json::from_str::<Vec<ButtplugMessageUnion>>.
from_str(text) ==
  IF text.json = "array" /\ \A i \in DOMAIN text.items : ItemIsMessage(text.items[i])
  THEN [ok |-> TRUE, msg_vec |-> [i \in DOMAIN text.items |-> DeserializeMessage(text.items[i])]]
  ELSE [ok |-> FALSE, msg_vec |-> <<>>]

\* ButtplugMessageUnion::try_deserialize. msg_vec[0] of an empty Vec panics
\* (index out of bounds) inside and_then, before map_err is reached.
try_deserialize(text) ==
  LET parsed == from_str(text)
  IN IF ~parsed.ok
     THEN [outcome |-> "Err", what |-> "ButtplugMessageError", msg |-> None]
     ELSE IF parsed.msg_vec = <<>>
     THEN [outcome |-> "panic", what |-> "index out of bounds", msg |-> None]
     ELSE [outcome |-> "Ok", what |-> "", msg |-> parsed.msg_vec[1]]

ParseFrame ==
  /\ Quiet
  /\ UNCHANGED dmRest
  /\ UNCHANGED scanVars
  /\ UNCHANGED devVars
  /\ UNCHANGED pingVars
  /\ UNCHANGED builder

\* A text arrives from the other side of the connection.
ReceiveText(text) ==
  /\ vmsg = None
  /\ vmsg' = text
  /\ UNCHANGED <<vres, vconv>>
  /\ ParseFrame

\* The text is made by as_protocol_json from the message m (kept in vconv).
SendAsProtocolJson(m) ==
  /\ vmsg = None
  /\ vmsg' = as_protocol_json(m)
  /\ vconv' = m
  /\ UNCHANGED vres
  /\ ParseFrame

TryDeserialize ==
  /\ vmsg # None
  /\ vres = None
  /\ vres' = try_deserialize(vmsg)
  /\ UNCHANGED <<vmsg, vconv>>
  /\ ParseFrame

InitParse ==
  /\ DmInit
  /\ ScanInit /\ canScan = [g \in OtherManagers |-> FALSE]
  /\ PingIdle
  /\ BuilderIdle
  /\ DevInit

NextParse ==
  \/ \E text \in JsonTexts : ReceiveText(text)
  \/ \E m \in UnionMessages : SendAsProtocolJson(m)
  \/ TryDeserialize

SpecParse == InitParse /\ [][NextParse]_vars

Deserialized == vmsg # None /\ vres # None

\* The text is a non-empty array of valid messages.
NonEmptyMessageArray ==
  /\ vmsg.json = "array"
  /\ vmsg.items # <<>>
  /\ \A i \in DOMAIN vmsg.items : ItemIsMessage(vmsg.items[i])

EmptyArray == vmsg.json = "array" /\ vmsg.items = <<>>

MessageOrError == Deserialized => vres.outcome \in {"Ok", "Err"}

MalformedGivesError ==
  (Deserialized /\ ~NonEmptyMessageArray) =>
     (vres.outcome = "Err" /\ vres.what = "ButtplugMessageError")

RoundTrip ==
  (Deserialized /\ vconv # None) => (vres.outcome = "Ok" /\ vres.msg = vconv)

\* What the code does on the texts other than the empty array, and on it.
MalformedButNotEmptyGivesError ==
  (Deserialized /\ ~NonEmptyMessageArray /\ ~EmptyArray) =>
     (vres.outcome = "Err" /\ vres.what = "ButtplugMessageError")

FirstOfTheArray ==
  (Deserialized /\ NonEmptyMessageArray) =>
     (vres.outcome = "Ok" /\ vres.msg = DeserializeMessage(vmsg.items[1]))

PanicsOnEmptyArrayOnly == Deserialized => (vres.outcome = "panic" <=> EmptyArray)

TryDeserializeOtherwise ==
  MalformedButNotEmptyGivesError /\ FirstOfTheArray /\ PanicsOnEmptyArrayOnly /\ RoundTrip

\* C33: try_deserialize yields, for every input, a message or a message
\* error and never aborts; an input that is not a non-empty array of valid
\* messages (the empty array included) gives a ButtplugMessageError, and the
\* array of one message m made by as_protocol_json(m) gives back m.
C33_TryDeserializeNeverAborts ==
  MessageOrError /\ MalformedGivesError /\ RoundTrip

C33_EmptyArrayPanics == Deserialized /\ EmptyArray /\ vres.outcome = "panic"

C33_RoundTripDone ==
  Deserialized /\ vconv # None /\ vconv.type = "Ping" /\ vconv.id = MaxId /\ vres.msg = vconv

====
